---- MODULE Spec2Model ----
(***************************************************************************)
(* A model of the B+-tree insert engine (src/src/btree_insert.c) and of    *)
(* the btree cursor (src/src/btree_cursor.c).                              *)
(*                                                                         *)
(* Pages live in `pages', a sequence indexed by page ID (0 is the null     *)
(* ID).  A page holds a fixed array of maxkeys slots; slots at and beyond  *)
(* `count' keep whatever bytes were there (memmove/memcpy never clear).    *)
(* A pointer word (ham_offset_t) is its memory image: PtrWidth bytes.      *)
(***************************************************************************)
EXTENDS Integers, Sequences, FiniteSets, TLC

VARIABLES
    maxkeys,     \* btree_get_maxkeys(be)
    pages,       \* page ID -> page (node header, slot array, cursor list)
    rootpage,    \* btree_get_rootpage(be)
    db_dirty,    \* db_set_dirty
    blobs,       \* the blob store: blob ID -> [data, live]
    cursors,     \* cursor handle -> cursor object
    db_cursors,  \* db_get_cursors(db): head of the database's cursor list
    db_txn,      \* db_get_txn(db): the database's active transaction
    mem,         \* the allocator: live blocks, bad frees, lost blocks
    inserted,    \* history: key -> record of its successful insert
    last         \* history: the last call, its arguments and what it returned

vars == <<maxkeys, pages, rootpage, db_dirty, blobs, cursors, db_cursors,
          db_txn, mem, inserted, last>>

----------------------------------------------------------------------------
(* Bounds of the model *)

\* keys are 1..MaxKey in the tree-only specification
MaxKey == 6
\* maxkeys ranges over MinMaxKeys..MaxMaxKeys
MaxMaxKeys == 3

(* Program constants *)

\* sizeof(ham_offset_t)
PtrWidth == 8
\* ham_assert(maxkeys>1)
MinMaxKeys == 2

HAM_SUCCESS == "SUCCESS"
HAM_DUPLICATE_KEY == "DUPLICATE_KEY"
HAM_KEY_NOT_FOUND == "KEY_NOT_FOUND"
HAM_CURSOR_IS_NIL == "CURSOR_IS_NIL"
HAM_OUT_OF_MEMORY == "OUT_OF_MEMORY"
HAM_COMPARE_FAILED == "COMPARE_FAILED"
HAM_BLOB_NOT_FOUND == "BLOB_NOT_FOUND"
SPLIT == "SPLIT"
NOFLUSH == "NOFLUSH"
OVERWRITE == "OVERWRITE"
HAM_OVERWRITE == "HAM_OVERWRITE"
PAGE_TYPE_ROOT == "ROOT"
PAGE_TYPE_INDEX == "INDEX"
KEY_BLOB_SIZE_TINY == "TINY"
KEY_BLOB_SIZE_SMALL == "SMALL"
KEY_BLOB_SIZE_EMPTY == "EMPTY"

Min(S) == CHOOSE x \in S : \A y \in S : x <= y
Max(S) == CHOOSE x \in S : \A y \in S : x >= y

----------------------------------------------------------------------------
(* Pointer words, slots, pages *)

\* the memory image of a ham_offset_t holding the small number n
Word(n) == [i \in 0..(PtrWidth - 1) |-> IF i = 0 THEN n ELSE 0]
WordVal(w) == w[0]

\* a slot no insert has written yet
NoEntry == [key |-> 0, ptr |-> Word(0), flags |-> {}]

\* a page as db_alloc_page hands it out: header and slots zeroed
NewPage(type) ==
    [type |-> type, count |-> 0, ptr_left |-> 0, left |-> 0, right |-> 0,
     slots |-> [i \in 0..(maxkeys - 1) |-> NoEntry],
     dirty |-> FALSE, cursors |-> <<>>, refcount |-> 0]

\* db_alloc_page: the new page gets the next page ID
db_alloc_page(m, type) ==
    [m EXCEPT !.pages = Append(m.pages, NewPage(type))]

\* btree_node_is_leaf: a node without a left-pointer child is a leaf
btree_node_is_leaf(node) == node.ptr_left = 0

\* key_compare_int_to_pub: slot i of the page against a caller's key;
\* <0, 0, >0 as the slot's key is less, equal, greater
key_compare_int_to_pub(page, i, key) ==
    IF page.slots[i].key < key THEN -1
    ELSE IF page.slots[i].key = key THEN 0 ELSE 1

\* btree_node_search_by_key: the slot holding the key, or -1
btree_node_search_by_key(page, key) ==
    LET hit == {i \in 0..(page.count - 1) : page.slots[i].key = key}
    IN  IF hit = {} THEN -1 ELSE Min(hit)

\* btree_traverse_tree: the child of an internal page that covers the key
btree_traverse_tree(page, key) ==
    LET le == {i \in 0..(page.count - 1) : page.slots[i].key <= key}
    IN  IF le = {} THEN page.ptr_left ELSE WordVal(page.slots[Max(le)].ptr)

\* blob_allocate: store the bytes, return the new blob's ID
blob_allocate(m, data) ==
    [m EXCEPT !.blobs = Append(m.blobs, [data |-> data, live |-> TRUE,
                                         frees |-> 0])]

\* blob_free: the blob is gone; `frees' counts how often it was freed
blob_free(m, id) ==
    IF id \in DOMAIN m.blobs
    THEN [m EXCEPT !.blobs[id].live = FALSE, !.blobs[id].frees = @ + 1]
    ELSE m

\* blob_overwrite: the blob takes the new bytes in place, or moves to a new
\* ID (m.relocate: which of the two the blob store does)
blob_overwrite(m, id, data) ==
    IF m.relocate THEN blob_allocate(blob_free(m, id), data)
    ELSE [m EXCEPT !.blobs[id].data = data]

\* the ID blob_overwrite returns
blob_overwrite_rid(m, id) == IF m.relocate THEN Len(m.blobs) + 1 ELSE id

----------------------------------------------------------------------------
(* btree_insert.c *)

\* lines 348-372: how a leaf slot's flags and pointer word hold the record
\* (rid is the word the caller passed, or the blob ID just allocated)
\* RecordFlags with the TINY/SMALL boundary off by one
RecordFlags_TinyAtWidth(record) ==
    IF Len(record) = 0 THEN {KEY_BLOB_SIZE_EMPTY}
    ELSE IF Len(record) <= PtrWidth THEN {KEY_BLOB_SIZE_TINY}
    ELSE {}

RecordFlags(record) ==
    IF Len(record) = 0 THEN {KEY_BLOB_SIZE_EMPTY}
    ELSE IF Len(record) < PtrWidth THEN {KEY_BLOB_SIZE_TINY}
    ELSE IF Len(record) = PtrWidth THEN {KEY_BLOB_SIZE_SMALL}
    ELSE {}

RecordWord(record, rid) ==
    IF Len(record) = 0 \/ Len(record) > PtrWidth THEN rid
    ELSE [i \in 0..(PtrWidth - 1) |->
            IF i < Len(record) THEN record[i + 1]
            ELSE IF i = PtrWidth - 1 THEN Len(record)
            ELSE rid[i]]

\* the slot my_insert_nosplit stops at: the first whose key is >= the new
\* key, or count
InsertIndex(page, key) ==
    LET ge == {j \in 0..(page.count - 1) :
                    key_compare_int_to_pub(page, j, key) >= 0}
    IN  IF ge = {} THEN page.count ELSE Min(ge)

\* memmove: slots [i, count) move one slot to the right
ShiftRight(page, i) ==
    [j \in 0..(maxkeys - 1) |->
        IF j > i /\ j <= page.count THEN page.slots[j - 1] ELSE page.slots[j]]

\* lines 348-386: the entry is written into slot i, the page is dirty and
\* has one key more
StoreEntry(m, pid, i, bte) ==
    [m EXCEPT !.pages[pid].slots[i] = bte,
              !.pages[pid].dirty = TRUE,
              !.pages[pid].count = @ + 1]

\* a variant of InsertAt that, with OVERWRITE, writes the entry over the
\* slot that holds the key and marks the page dirty
InsertAt_RewriteOnOverwrite(m, pid, key, rid, record, flags, i) ==
    LET page == m.pages[pid]
        leaf == btree_node_is_leaf(page)
        m1 == [m EXCEPT !.pages[pid].slots = ShiftRight(page, i)]
        bte == [key |-> key,
                ptr |-> IF leaf THEN RecordWord(record, rid) ELSE rid,
                flags |-> IF leaf THEN RecordFlags(record) ELSE {}]
    IN  IF i < page.count /\ key_compare_int_to_pub(page, i, key) = 0
        THEN IF OVERWRITE \in flags
             THEN [st |-> HAM_SUCCESS,
                   m |-> [m EXCEPT !.pages[pid].slots[i] = bte,
                                   !.pages[pid].dirty = TRUE]]
             ELSE [st |-> HAM_DUPLICATE_KEY, m |-> m]
        ELSE [st |-> HAM_SUCCESS, m |-> StoreEntry(m1, pid, i, bte)]

\* lines 328-386 of my_insert_nosplit, once the scan has stopped at slot i
InsertAt(m, pid, key, rid, record, flags, i) ==
    LET page == m.pages[pid]
        leaf == btree_node_is_leaf(page)
        blob == leaf /\ Len(record) > PtrWidth
        m1 == [m EXCEPT !.pages[pid].slots = ShiftRight(page, i)]
    IN  IF i < page.count /\ key_compare_int_to_pub(page, i, key) = 0
        THEN [st |-> IF OVERWRITE \in flags THEN HAM_SUCCESS
                     ELSE HAM_DUPLICATE_KEY,
              m |-> m]
        ELSE IF blob /\ "blob" \in m.faults
        THEN [st |-> HAM_OUT_OF_MEMORY, m |-> m1]
        ELSE IF blob
        THEN [st |-> HAM_SUCCESS,
              m |-> StoreEntry(blob_allocate(m1, record), pid, i,
                               [key |-> key,
                                ptr |-> Word(Len(m.blobs) + 1),
                                flags |-> RecordFlags(record)])]
        ELSE [st |-> HAM_SUCCESS,
              m |-> StoreEntry(m1, pid, i,
                               [key |-> key,
                                ptr |-> IF leaf THEN RecordWord(record, rid)
                                        ELSE rid,
                                flags |-> IF leaf THEN RecordFlags(record)
                                          ELSE {}])]

my_insert_nosplit(m, pid, key, rid, record, flags) ==
    IF m.pages[pid].count > 0 /\ "compare" \in m.faults
    THEN [st |-> HAM_COMPARE_FAILED, m |-> m]
    ELSE InsertAt(m, pid, key, rid, record, flags,
                  InsertIndex(m.pages[pid], key))

\* lines 511-516: the writes to the sibling links of one split, in program
\* order; `split' is the page the split made, `node' the page written
\* (the new page, the old page or the old page's former right sibling)
SiblingWrites(m, pid, newid) ==
    LET oldsib == m.pages[pid].right
    IN  <<[split |-> newid, node |-> "new", link |-> "left", to |-> pid],
          [split |-> newid, node |-> "new", link |-> "right",
           to |-> oldsib],
          [split |-> newid, node |-> "old", link |-> "right",
           to |-> newid]>>
        \o (IF oldsib # 0
            THEN <<[split |-> newid, node |-> "oldsib", link |-> "left",
                    to |-> newid]>>
            ELSE <<>>)

\* lines 503-520: the sibling chain around the new page; m.links lists the
\* link writes of the running call
SpliceSiblings(m, pid, newid) ==
    LET oldsib == m.pages[pid].right
        m1 == [m EXCEPT !.pages[newid].left = pid,
                        !.pages[newid].right = oldsib,
                        !.pages[pid].right = newid,
                        !.pages[newid].dirty = TRUE,
                        !.pages[pid].dirty = TRUE,
                        !.links = @ \o SiblingWrites(m, pid, newid)]
    IN  IF oldsib # 0
        THEN [m1 EXCEPT !.pages[oldsib].left = newid,
                        !.pages[oldsib].dirty = TRUE]
        ELSE m1

\* SplitPivot that rounds upward
SplitPivot_Ceil(count) == (count + 1) \div 2

\* lines 430-446: the slots the new page receives
SplitPivot(count) == count \div 2

MovedSlots(obtp, pivot) ==
    LET from == IF btree_node_is_leaf(obtp) THEN pivot ELSE pivot + 1
    IN  [j \in 0..(maxkeys - 1) |->
            IF from + j < obtp.count THEN obtp.slots[from + j] ELSE NoEntry]

\* lines 430-476: the new page gets the upper slots, the counts are set and
\* an internal page's pivot pointer becomes the new page's ptr_left
MoveUpperHalf(m, pid, newid) ==
    LET obtp == m.pages[pid]
        pivot == SplitPivot(obtp.count)
        leaf == btree_node_is_leaf(obtp)
    IN  [m EXCEPT !.pages[newid].slots = MovedSlots(obtp, pivot),
                  !.pages[pid].count = pivot,
                  !.pages[newid].count =
                       IF leaf THEN obtp.count - pivot
                       ELSE obtp.count - pivot - 1,
                  !.pages[newid].ptr_left =
                       IF leaf THEN 0
                       ELSE WordVal(obtp.slots[pivot].ptr)]

\* SplitTarget that keeps every new key in the old page
SplitTarget_AlwaysOld(cmp, pid, newid) == pid

\* SplitTarget with the comparison turned around
SplitTarget_Reversed(cmp, pid, newid) == IF cmp >= 0 THEN newid ELSE pid

\* line 494: the page that takes the new key, given cmp of the pivot slot
\* against the key
SplitTarget(cmp, pid, newid) == IF cmp <= 0 THEN newid ELSE pid

\* a block of the allocator is named by the pointer that owns it: the
\* cursor object of a handle, the key structure and the key data of a
\* cursor's uncoupled key, the temporary key of bt_cursor_couple, and the
\* pivot key of the split that made a page
MEM_CURSOR == "cursor"
MEM_KEY == "key"
MEM_KEYDATA == "keydata"
MEM_TMPKEY == "tmpkey"
MEM_PIVOT == "pivot"

\* the allocator with nothing allocated
NoMem == [live |-> {}, bad |-> FALSE, lost |-> FALSE]

\* mem.c, alloc_impl: malloc; a block whose owner already holds a live
\* block leaves the earlier one without a pointer to it
alloc_impl(m, block) ==
    [m EXCEPT !.mem = [live |-> @.live \cup {block},
                       bad |-> @.bad,
                       lost |-> @.lost \/ block \in @.live]]

\* mem.c, free_impl: free; freeing what is not allocated is recorded
free_impl(m, block) ==
    [m EXCEPT !.mem = [live |-> @.live \ {block},
                       bad |-> @.bad \/ block \notin @.live,
                       lost |-> @.lost]]

\* FreeScratchKey that never frees the scratchpad's key
FreeScratchKey_Never(m, sp) == m

\* if (scratchpad->key.data) ham_mem_free(scratchpad->key.data): the
\* scratchpad's key is the pivot key of the split that made page sp.rid
FreeScratchKey(m, sp) ==
    IF sp.key # 0 THEN free_impl(m, <<MEM_PIVOT, WordVal(sp.rid)>>) ELSE m

\* SplitDone that passes the old page's first key upward as the pivot
SplitDone_OldFirstKey(r, pid, newid, pivotkey, sp) ==
    IF r.st # HAM_SUCCESS
    THEN [st |-> r.st, m |-> r.m, sp |-> sp]
    ELSE [st |-> SPLIT,
          m |-> FreeScratchKey(SpliceSiblings(r.m, pid, newid), sp),
          sp |-> [sp EXCEPT !.key = r.m.pages[pid].slots[0].key,
                            !.rid = Word(newid)]]

\* lines 498-530: after the insert into one of the halves, r its result
SplitDone(r, pid, newid, pivotkey, sp) ==
    IF r.st # HAM_SUCCESS
    THEN [st |-> r.st, m |-> r.m, sp |-> sp]
    ELSE [st |-> SPLIT,
          m |-> FreeScratchKey(SpliceSiblings(r.m, pid, newid), sp),
          sp |-> [sp EXCEPT !.key = pivotkey, !.rid = Word(newid)]]

\* lines 478-530: the new key goes into one of the halves of m2, the tree
\* with the slots moved; obtp is the old page as it was before
InsertInHalf(m2, obtp, pid, newid, key, rid, flags, sp) ==
    IF "compare" \in m2.faults
    THEN [st |-> HAM_COMPARE_FAILED, m |-> m2, sp |-> sp]
    ELSE SplitDone(
            my_insert_nosplit(
                m2,
                SplitTarget(key_compare_int_to_pub(
                                obtp, SplitPivot(obtp.count), key),
                            pid, newid),
                key, rid, sp.record, flags \cup {NOFLUSH}),
            pid, newid, obtp.slots[SplitPivot(obtp.count)].key, sp)

\* my_insert_split that reports the failed allocation of the sibling only
\* after the upper slots are gone from the old page
my_insert_split_FailLate(m, pid, key, rid, flags, sp) ==
    IF "sibling" \in m.faults
    THEN [st |-> HAM_OUT_OF_MEMORY,
          m |-> [m EXCEPT !.pages[pid].count = SplitPivot(@)],
          sp |-> sp]
    ELSE IF "copykey" \in m.faults
    THEN [st |-> HAM_OUT_OF_MEMORY,
          m |-> [db_alloc_page(m, "FREE") EXCEPT
                    !.pages[Len(m.pages) + 1].slots =
                        MovedSlots(m.pages[pid],
                                   SplitPivot(m.pages[pid].count))],
          sp |-> sp]
    ELSE InsertInHalf(alloc_impl(MoveUpperHalf(
                                     db_alloc_page(m, PAGE_TYPE_INDEX), pid,
                                     Len(m.pages) + 1),
                                 <<MEM_PIVOT, Len(m.pages) + 1>>),
                      m.pages[pid], pid, Len(m.pages) + 1, key, rid, flags,
                      sp)

my_insert_split(m, pid, key, rid, flags, sp) ==
    IF "sibling" \in m.faults
    THEN [st |-> HAM_OUT_OF_MEMORY, m |-> m, sp |-> sp]
    ELSE IF "copykey" \in m.faults
    THEN [st |-> HAM_OUT_OF_MEMORY,
          m |-> [db_alloc_page(m, "FREE") EXCEPT
                    !.pages[Len(m.pages) + 1].slots =
                        MovedSlots(m.pages[pid],
                                   SplitPivot(m.pages[pid].count))],
          sp |-> sp]
    ELSE InsertInHalf(alloc_impl(MoveUpperHalf(
                                     db_alloc_page(m, PAGE_TYPE_INDEX), pid,
                                     Len(m.pages) + 1),
                                 <<MEM_PIVOT, Len(m.pages) + 1>>),
                      m.pages[pid], pid, Len(m.pages) + 1, key, rid, flags,
                      sp)

\* the result of my_insert_nosplit as my_insert_in_page returns it
NoSplit(r, sp) == [st |-> r.st, m |-> r.m, sp |-> sp]

\* my_insert_in_page that splits a page one key before it is full
my_insert_in_page_SplitEarly(m, pid, key, rid, flags, sp) ==
    LET node == m.pages[pid]
    IN  IF node.count < maxkeys - 1
        THEN NoSplit(my_insert_nosplit(m, pid, key, rid, sp.record, flags),
                     sp)
        ELSE IF btree_node_is_leaf(node)
                /\ btree_node_search_by_key(node, key) >= 0
        THEN IF OVERWRITE \in flags
             THEN NoSplit(my_insert_nosplit(m, pid, key, rid, sp.record,
                                            flags), sp)
             ELSE [st |-> HAM_DUPLICATE_KEY, m |-> m, sp |-> sp]
        ELSE my_insert_split(m, pid, key, rid, flags, sp)

\* my_insert_in_page that splits a full leaf without searching it first
my_insert_in_page_NoSearch(m, pid, key, rid, flags, sp) ==
    IF m.pages[pid].count < maxkeys
    THEN NoSplit(my_insert_nosplit(m, pid, key, rid, sp.record, flags), sp)
    ELSE my_insert_split(m, pid, key, rid, flags, sp)

my_insert_in_page(m, pid, key, rid, flags, sp) ==
    LET node == m.pages[pid]
    IN  IF node.count < maxkeys
        THEN NoSplit(my_insert_nosplit(m, pid, key, rid, sp.record, flags),
                     sp)
        ELSE IF btree_node_is_leaf(node)
                /\ btree_node_search_by_key(node, key) >= 0
        THEN IF OVERWRITE \in flags
             THEN NoSplit(my_insert_nosplit(m, pid, key, rid, sp.record,
                                            flags), sp)
             ELSE [st |-> HAM_DUPLICATE_KEY, m |-> m, sp |-> sp]
        ELSE my_insert_split(m, pid, key, rid, flags, sp)

\* lines 206-221: back from the child with its result r; a split below
\* puts the pivot into this page
PropagateSplit(r, pid) ==
    IF r.st = SPLIT
    THEN my_insert_in_page(r.m, pid, r.sp.key, r.sp.rid, {OVERWRITE}, r.sp)
    ELSE r

RECURSIVE my_insert_recursive(_, _, _, _, _)
my_insert_recursive(m, pid, key, rid, sp) ==
    IF btree_node_is_leaf(m.pages[pid])
    THEN my_insert_in_page(m, pid, key, rid, {}, sp)
    ELSE PropagateSplit(
            my_insert_recursive(m, btree_traverse_tree(m.pages[pid], key),
                                key, rid, sp),
            pid)

\* SetNewRoot that leaves the old root the root of the tree
SetNewRoot_KeepRoot(m, root, newroot) ==
    [m EXCEPT !.dirty = TRUE, !.pages[root].type = PAGE_TYPE_INDEX]

\* SetNewRoot that forgets to retype the old root
SetNewRoot_NoRetype(m, root, newroot) ==
    [m EXCEPT !.rootpage = newroot, !.dirty = TRUE]

\* lines 168-170: the tree gets its new root
SetNewRoot(m, root, newroot) ==
    [m EXCEPT !.rootpage = newroot,
              !.dirty = TRUE,
              !.pages[root].type = PAGE_TYPE_INDEX]

\* lines 156-172: r2 is the result of the insert into the new root
NewRootDone(r2, root, newroot, sp) ==
    IF r2.st # HAM_SUCCESS
    THEN [st |-> r2.st, m |-> FreeScratchKey(r2.m, sp), sp |-> sp]
    ELSE [st |-> HAM_SUCCESS,
          m |-> FreeScratchKey(SetNewRoot(r2.m, root, newroot), sp),
          sp |-> sp]

\* lines 131-172: r is the result of my_insert_recursive on the root
RootDone(r, root) ==
    IF r.st # SPLIT
    THEN [r EXCEPT !.m = FreeScratchKey(r.m, r.sp)]
    ELSE IF "newroot" \in r.m.faults
    THEN [st |-> HAM_OUT_OF_MEMORY, m |-> r.m, sp |-> r.sp]
    ELSE NewRootDone(
            my_insert_nosplit(
                [db_alloc_page(r.m, PAGE_TYPE_ROOT) EXCEPT
                    !.pages[Len(r.m.pages) + 1].ptr_left = root],
                Len(r.m.pages) + 1, r.sp.key, r.sp.rid, r.sp.record,
                {NOFLUSH}),
            root, Len(r.m.pages) + 1, r.sp)

btree_insert(m, key, record, flags) ==
    RootDone(my_insert_recursive(m, m.rootpage, key, Word(0),
                                 [key |-> 0, rid |-> Word(0),
                                  record |-> record, flags |-> flags]),
             m.rootpage)

----------------------------------------------------------------------------
(* The transaction manager: begin, commit, abort *)

\* db_get_txn(db): no transaction, the caller's, or an operation's own
TXN_NONE == "none"
TXN_OUTER == "outer"
TXN_LOCAL == "local"

\* ham_bool_t local_txn=db_get_txn(db) ? HAM_FALSE : HAM_TRUE
\* a variant that opens a transaction even inside the caller's
local_txn_Always(m) == TRUE

local_txn(m) == m.txn = TXN_NONE

\* ham_txn_begin, ham_txn_commit, ham_txn_abort of an operation's own
\* transaction; `log' lists what the running call did to transactions
ham_txn_begin(m) == [m EXCEPT !.txn = TXN_LOCAL, !.log = Append(@, "begin")]
ham_txn_commit(m) == [m EXCEPT !.txn = TXN_NONE, !.log = Append(@, "commit")]
ham_txn_abort(m) == [m EXCEPT !.txn = TXN_NONE, !.log = Append(@, "abort")]

\* if (local_txn) { st=ham_txn_begin(&txn, db); ... }
BeginLocal(m) == IF local_txn(m) THEN ham_txn_begin(m) ELSE m

\* if (local_txn) (void)ham_txn_abort(&txn);
AbortLocal(m, local) == IF local THEN ham_txn_abort(m) ELSE m

\* the two ways out of an operation that keeps its transaction in order:
\* abort and return the error, or return what the commit returns
EndLocal(r, local) ==
    IF ~local THEN r
    ELSE IF r.st # HAM_SUCCESS THEN [r EXCEPT !.m = ham_txn_abort(@)]
    ELSE [r EXCEPT !.m = ham_txn_commit(@)]

----------------------------------------------------------------------------
(* btree_cursor.c *)

BT_CURSOR_FLAG_COUPLED == "COUPLED"
BT_CURSOR_FLAG_UNCOUPLED == "UNCOUPLED"
BT_CURSOR_UNCOUPLE_NO_REMOVE == "NO_REMOVE"
HAM_CURSOR_FIRST == "FIRST"
HAM_CURSOR_LAST == "LAST"
HAM_CURSOR_NEXT == "NEXT"
HAM_CURSOR_PREVIOUS == "PREVIOUS"

\* a cursor object after memset(c, 0, sizeof(*c)); `open' tells an allocated
\* object from a freed handle; uncoupled_key is what the key the cursor
\* points to holds and keyptr the owner of that block (0: a null pointer)
ZeroCursor ==
    [open |-> FALSE, flags |-> {}, coupled_page |-> 0, coupled_index |-> 0,
     uncoupled_key |-> 0, keyptr |-> 0, dupe_id |-> 0, next |-> 0,
     previous |-> 0]

bt_cursor_is_nil(cur) ==
    cur.flags \cap {BT_CURSOR_FLAG_COUPLED, BT_CURSOR_FLAG_UNCOUPLED} = {}

\* page_add_cursor / page_remove_cursor: the page's list of coupled cursors
page_add_cursor(m, pid, c) ==
    [m EXCEPT !.pages[pid].cursors = <<c>> \o @]

page_remove_cursor(m, pid, c) ==
    [m EXCEPT !.pages[pid].cursors = SelectSeq(@, LAMBDA x : x # c)]

\* page_add_ref / page_release_ref: the page's reference count, which
\* keeps the pager from unloading it; every change is logged with the
\* count it leaves
page_add_ref(m, pid) ==
    [m EXCEPT !.pages[pid].refcount = @ + 1,
              !.pins = Append(@, <<pid, m.pages[pid].refcount + 1>>)]

page_release_ref(m, pid) ==
    [m EXCEPT !.pages[pid].refcount = @ - 1,
              !.pins = Append(@, <<pid, m.pages[pid].refcount - 1>>)]

\* lines 74-83: couple the cursor to a slot of a page
CoupleTo(m, c, pid, index) ==
    LET m1 == page_add_cursor(m, pid, c)
    IN  [m1 EXCEPT !.cursors[c].coupled_page = pid,
                   !.cursors[c].coupled_index = index,
                   !.cursors[c].flags = @ \cup {BT_CURSOR_FLAG_COUPLED},
                   !.cursors[c].dupe_id = 0]

\* bt_cursor_set_to_nil that clears the flags but keeps the key copy
bt_cursor_set_to_nil_KeepKey(m, c) ==
    LET cur == m.cursors[c]
        m1 == IF BT_CURSOR_FLAG_UNCOUPLED \in cur.flags
              THEN [m EXCEPT !.cursors[c].flags =
                                  @ \ {BT_CURSOR_FLAG_UNCOUPLED}]
              ELSE IF BT_CURSOR_FLAG_COUPLED \in cur.flags
              THEN [page_remove_cursor(m, cur.coupled_page, c)
                        EXCEPT !.cursors[c].flags =
                                  @ \ {BT_CURSOR_FLAG_COUPLED}]
              ELSE m
    IN  [m1 EXCEPT !.cursors[c].dupe_id = 0]

bt_cursor_set_to_nil(m, c) ==
    LET cur == m.cursors[c]
        m1 == IF BT_CURSOR_FLAG_UNCOUPLED \in cur.flags
              THEN [free_impl(free_impl(m, <<MEM_KEYDATA, cur.keyptr>>),
                              <<MEM_KEY, cur.keyptr>>)
                        EXCEPT !.cursors[c].uncoupled_key = 0,
                               !.cursors[c].keyptr = 0,
                               !.cursors[c].flags =
                                    @ \ {BT_CURSOR_FLAG_UNCOUPLED}]
              ELSE IF BT_CURSOR_FLAG_COUPLED \in cur.flags
              THEN [page_remove_cursor(m, cur.coupled_page, c)
                        EXCEPT !.cursors[c].flags =
                                  @ \ {BT_CURSOR_FLAG_COUPLED}]
              ELSE m
    IN  [m1 EXCEPT !.cursors[c].dupe_id = 0]

\* lines 57-72 of my_move_first: follow the left-pointers down to a leaf;
\* 0 when a page on the way has no entries
RECURSIVE LeftmostLeaf(_, _)
LeftmostLeaf(m, pid) ==
    LET node == m.pages[pid]
    IN  IF node.count = 0 THEN 0
        ELSE IF btree_node_is_leaf(node) THEN pid
        ELSE LeftmostLeaf(m, node.ptr_left)

\* lines 320-339 of my_move_last: follow the last slot's pointer down
RECURSIVE RightmostLeaf(_, _)
RightmostLeaf(m, pid) ==
    LET node == m.pages[pid]
    IN  IF node.count = 0 THEN 0
        ELSE IF btree_node_is_leaf(node) THEN pid
        ELSE RightmostLeaf(m, WordVal(node.slots[node.count - 1].ptr))

\* DescendFirst that couples the cursor to the root of an empty tree
DescendFirst_CoupleOnEmpty(m, c) ==
    LET leaf == LeftmostLeaf(m, m.rootpage)
    IN  IF leaf = 0
        THEN [st |-> HAM_KEY_NOT_FOUND, m |-> CoupleTo(m, c, m.rootpage, 0)]
        ELSE [st |-> HAM_SUCCESS, m |-> CoupleTo(m, c, leaf, 0)]

\* lines 57-83 of my_move_first, the cursor being NIL by now
DescendFirst(m, c) ==
    LET leaf == LeftmostLeaf(m, m.rootpage)
    IN  IF leaf = 0
        THEN [st |-> HAM_KEY_NOT_FOUND, m |-> m]
        ELSE [st |-> HAM_SUCCESS, m |-> CoupleTo(m, c, leaf, 0)]

my_move_first(m, c) == DescendFirst(bt_cursor_set_to_nil(m, c), c)

\* lines 320-353 of my_move_last, the cursor being NIL by now
DescendLast(m, c) ==
    LET leaf == RightmostLeaf(m, m.rootpage)
    IN  IF leaf = 0
        THEN [st |-> HAM_KEY_NOT_FOUND, m |-> m]
        ELSE [st |-> HAM_SUCCESS,
              m |-> CoupleTo(m, c, leaf, m.pages[leaf].count - 1)]

my_move_last(m, c) == DescendLast(bt_cursor_set_to_nil(m, c), c)

\* btree_find_cursor: descend to the leaf that would hold the key, search
\* it, couple the cursor on an exact match
RECURSIVE FindLeaf(_, _, _)
FindLeaf(m, pid, key) ==
    IF btree_node_is_leaf(m.pages[pid]) THEN pid
    ELSE FindLeaf(m, btree_traverse_tree(m.pages[pid], key), key)

btree_find_cursor(m, c, key) ==
    LET leaf == FindLeaf(m, m.rootpage, key)
        idx == btree_node_search_by_key(m.pages[leaf], key)
    IN  IF idx < 0
        THEN [st |-> HAM_KEY_NOT_FOUND, m |-> m]
        ELSE [st |-> HAM_SUCCESS, m |-> CoupleTo(m, c, leaf, idx)]

\* bt_cursor_find that does not set the cursor to NIL first
bt_cursor_find_NoNil(m, c, key) ==
    EndLocal(btree_find_cursor(BeginLocal(m), c, key), local_txn(m))

bt_cursor_find(m, c, key) ==
    EndLocal(btree_find_cursor(bt_cursor_set_to_nil(BeginLocal(m), c), c,
                               key),
             local_txn(m))

\* lines 427-431 of bt_cursor_couple: the temporary key is freed
CoupleFound(r, c) == [r EXCEPT !.m = free_impl(@, <<MEM_TMPKEY, c>>)]

\* bt_cursor_couple that leaves the cursor as it was when the find fails
bt_cursor_couple_KeepOnFail(m, c) ==
    IF btree_node_search_by_key(
           m.pages[FindLeaf(m, m.rootpage, m.cursors[c].uncoupled_key)],
           m.cursors[c].uncoupled_key) < 0
    THEN [st |-> HAM_KEY_NOT_FOUND, m |-> m]
    ELSE EndLocal(CoupleFound(bt_cursor_find(
                                  alloc_impl(BeginLocal(m),
                                             <<MEM_TMPKEY, c>>),
                                  c, m.cursors[c].uncoupled_key),
                              c),
                  local_txn(m))

bt_cursor_couple(m, c) ==
    EndLocal(CoupleFound(bt_cursor_find(
                             alloc_impl(BeginLocal(m), <<MEM_TMPKEY, c>>),
                             c, m.cursors[c].uncoupled_key),
                         c),
             local_txn(m))

\* CopyKeyTo that copies the key's value into the structure the cursor
\* already points to
CopyKeyTo_Shallow(m, c, key) ==
    [m EXCEPT !.cursors[c].uncoupled_key = key]

\* lines 478-490 and 592-609: the cursor gets a key structure of its own
\* holding a copy of the key
CopyKeyTo(m, c, key) ==
    [alloc_impl(alloc_impl(m, <<MEM_KEY, c>>), <<MEM_KEYDATA, c>>)
        EXCEPT !.cursors[c].uncoupled_key = key,
               !.cursors[c].keyptr = c]

\* UncoupleInTxn that takes the cursor off the page's list whatever the
\* flags
UncoupleInTxn_AlwaysRemove(m, c, flags) ==
    IF "keycopy" \in m.faults
    THEN [st |-> HAM_OUT_OF_MEMORY, m |-> m]
    ELSE [st |-> HAM_SUCCESS,
          m |-> [CopyKeyTo(page_remove_cursor(
                               m, m.cursors[c].coupled_page, c),
                           c,
                           m.pages[m.cursors[c].coupled_page]
                              .slots[m.cursors[c].coupled_index].key)
                    EXCEPT !.cursors[c].flags =
                              (@ \ {BT_CURSOR_FLAG_COUPLED})
                                  \cup {BT_CURSOR_FLAG_UNCOUPLED}]]

\* lines 460-510 of bt_cursor_uncouple, the cursor being coupled and the
\* transaction begun
UncoupleInTxn(m, c, flags) ==
    LET cur == m.cursors[c]
        entry == m.pages[cur.coupled_page].slots[cur.coupled_index]
        m1 == IF BT_CURSOR_UNCOUPLE_NO_REMOVE \in flags THEN m
              ELSE page_remove_cursor(m, cur.coupled_page, c)
    IN  IF "keycopy" \in m.faults
        THEN [st |-> HAM_OUT_OF_MEMORY, m |-> m]
        ELSE [st |-> HAM_SUCCESS,
              m |-> [CopyKeyTo(m1, c, entry.key)
                        EXCEPT !.cursors[c].flags =
                                  (@ \ {BT_CURSOR_FLAG_COUPLED})
                                      \cup {BT_CURSOR_FLAG_UNCOUPLED}]]

bt_cursor_uncouple(m, c, flags) ==
    IF BT_CURSOR_FLAG_UNCOUPLED \in m.cursors[c].flags
       \/ BT_CURSOR_FLAG_COUPLED \notin m.cursors[c].flags
    THEN [st |-> HAM_SUCCESS, m |-> m]
    ELSE EndLocal(UncoupleInTxn(BeginLocal(m), c, flags), local_txn(m))

\* lines 97-106: what my_move_next and my_move_previous do before moving
CoupleForMove(m, c) ==
    IF BT_CURSOR_FLAG_UNCOUPLED \in m.cursors[c].flags
    THEN bt_cursor_couple(m, c)
    ELSE IF BT_CURSOR_FLAG_COUPLED \notin m.cursors[c].flags
    THEN [st |-> HAM_CURSOR_IS_NIL, m |-> m]
    ELSE [st |-> HAM_SUCCESS, m |-> m]

\* lines 153-178: leave the page for a sibling
MoveToPage(m, c, pid, index) ==
    LET cur == m.cursors[c]
        m1 == page_remove_cursor(m, cur.coupled_page, c)
        m2 == [m1 EXCEPT !.cursors[c].flags = @ \ {BT_CURSOR_FLAG_COUPLED}]
    IN  CoupleTo(m2, c, pid, index)

\* StepNext that leaves the cursor NIL when there is no right sibling
StepNext_NilAtEnd(r, c) ==
    LET cur == r.m.cursors[c]
        node == r.m.pages[cur.coupled_page]
    IN  IF r.st # HAM_SUCCESS THEN r
        ELSE IF cur.coupled_index + 1 < node.count
        THEN [st |-> HAM_SUCCESS,
              m |-> [r.m EXCEPT !.cursors[c].coupled_index = @ + 1,
                                !.cursors[c].dupe_id = 0]]
        ELSE IF node.right = 0
        THEN [st |-> HAM_KEY_NOT_FOUND, m |-> bt_cursor_set_to_nil(r.m, c)]
        ELSE [st |-> HAM_SUCCESS, m |-> MoveToPage(r.m, c, node.right, 0)]

\* lines 108-178 of my_move_next, r the result of the coupling
StepNext(r, c) ==
    LET cur == r.m.cursors[c]
        node == r.m.pages[cur.coupled_page]
    IN  IF r.st # HAM_SUCCESS THEN r
        ELSE IF cur.coupled_index + 1 < node.count
        THEN [st |-> HAM_SUCCESS,
              m |-> [r.m EXCEPT !.cursors[c].coupled_index = @ + 1,
                                !.cursors[c].dupe_id = 0]]
        ELSE IF node.right = 0
        THEN [st |-> HAM_KEY_NOT_FOUND, m |-> r.m]
        ELSE [st |-> HAM_SUCCESS, m |-> MoveToPage(r.m, c, node.right, 0)]

my_move_next(m, c) == StepNext(CoupleForMove(m, c), c)

\* lines 206-274 of my_move_previous, r the result of the coupling
StepPrevious(r, c) ==
    LET cur == r.m.cursors[c]
        node == r.m.pages[cur.coupled_page]
    IN  IF r.st # HAM_SUCCESS THEN r
        ELSE IF cur.coupled_index # 0
        THEN [st |-> HAM_SUCCESS,
              m |-> [r.m EXCEPT !.cursors[c].coupled_index = @ - 1,
                                !.cursors[c].dupe_id = 0]]
        ELSE IF node.left = 0
        THEN [st |-> HAM_KEY_NOT_FOUND, m |-> r.m]
        ELSE [st |-> HAM_SUCCESS,
              m |-> MoveToPage(r.m, c, node.left,
                               r.m.pages[node.left].count - 1)]

my_move_previous(m, c) == StepPrevious(CoupleForMove(m, c), c)

\* lines 739-745: the flags that tell how the slot holds its record
SizeFlags ==
    {KEY_BLOB_SIZE_TINY, KEY_BLOB_SIZE_SMALL, KEY_BLOB_SIZE_EMPTY}

\* a variant that takes every old record for an inlined one
HoldsBlob_Never(entry) == FALSE

\* the slot's record is a blob: none of the size flags is set
HoldsBlob(entry) == entry.flags \cap SizeFlags = {}

\* util_read_record: decode a leaf slot, flags first
util_read_record(m, entry) ==
    IF KEY_BLOB_SIZE_EMPTY \in entry.flags THEN <<>>
    ELSE IF KEY_BLOB_SIZE_TINY \in entry.flags
    THEN [i \in 1..entry.ptr[PtrWidth - 1] |-> entry.ptr[i - 1]]
    ELSE IF KEY_BLOB_SIZE_SMALL \in entry.flags
    THEN [i \in 1..PtrWidth |-> entry.ptr[i - 1]]
    ELSE m.blobs[WordVal(entry.ptr)].data

\* util_read_key: the slot's key
util_read_key(entry) == entry.key

\* SeedDirection that leaves the direction as the caller gave it
SeedDirection_NoSeed(cur, flags) == flags

\* lines 857-870: a NIL cursor turns NEXT into FIRST and PREVIOUS into LAST
SeedDirection(cur, flags) ==
    IF bt_cursor_is_nil(cur)
    THEN IF HAM_CURSOR_NEXT \in flags
         THEN (flags \ {HAM_CURSOR_NEXT}) \cup {HAM_CURSOR_FIRST}
         ELSE IF HAM_CURSOR_PREVIOUS \in flags
         THEN (flags \ {HAM_CURSOR_PREVIOUS}) \cup {HAM_CURSOR_LAST}
         ELSE flags
    ELSE flags

\* lines 884-887: a move without direction on a NIL cursor
NilMoveStatus(wantkey, wantrec) ==
    IF wantkey \/ wantrec THEN HAM_CURSOR_IS_NIL ELSE HAM_SUCCESS

\* the result of bt_cursor_move: status, memory, and the key and record
\* written to the caller's buffers (NoKey, NoRecord where nothing was)
NoKey == 0
NoRecord == <<-1>>
MoveResult(st, m, key, rec) == [st |-> st, m |-> m, key |-> key, rec |-> rec]

\* lines 872-891: the move itself, flags being the seeded ones
Dispatch(m, c, flags) ==
    IF HAM_CURSOR_FIRST \in flags THEN my_move_first(m, c)
    ELSE IF HAM_CURSOR_LAST \in flags THEN my_move_last(m, c)
    ELSE IF HAM_CURSOR_NEXT \in flags THEN my_move_next(m, c)
    ELSE IF HAM_CURSOR_PREVIOUS \in flags THEN my_move_previous(m, c)
    ELSE IF BT_CURSOR_FLAG_UNCOUPLED \in m.cursors[c].flags
    THEN bt_cursor_couple(m, c)
    ELSE [st |-> HAM_SUCCESS, m |-> m]

\* util_read_record finds the bytes of the slot's record: inlined in the
\* slot, or in a blob the pointer word names
Readable(m, entry) ==
    HoldsBlob(entry) => WordVal(entry.ptr) \in DOMAIN m.blobs

\* the status of a failed util_read_record
ReadRecordStatus(m, entry) ==
    IF "readrec" \in m.faults THEN HAM_OUT_OF_MEMORY
    ELSE HAM_BLOB_NOT_FOUND

\* a variant of ReadAtCursor that returns a read error without releasing
\* the page
ReadAtCursor_KeepPinOnError(r, c, wantkey, wantrec) ==
    LET cur == r.m.cursors[c]
        page == cur.coupled_page
        entry == r.m.pages[page].slots[cur.coupled_index]
        pinned == page_add_ref(r.m, page)
    IN  IF r.st # HAM_SUCCESS
        THEN MoveResult(r.st, r.m, NoKey, NoRecord)
        ELSE IF wantkey /\ "readkey" \in r.m.faults
        THEN MoveResult(HAM_OUT_OF_MEMORY, pinned, NoKey, NoRecord)
        ELSE IF wantrec
                /\ ("readrec" \in r.m.faults \/ ~Readable(r.m, entry))
        THEN MoveResult(ReadRecordStatus(r.m, entry), pinned,
                        IF wantkey THEN util_read_key(entry) ELSE NoKey,
                        NoRecord)
        ELSE MoveResult(HAM_SUCCESS, page_release_ref(pinned, page),
                        IF wantkey THEN util_read_key(entry) ELSE NoKey,
                        IF wantrec THEN util_read_record(r.m, entry)
                        ELSE NoRecord)

\* lines 893-945: after the move, r its result; the page is pinned at line
\* 910, the key and the record are read from the slot the cursor is
\* coupled to, and the pin is released at lines 918, 940 and 947
ReadAtCursor(r, c, wantkey, wantrec) ==
    LET cur == r.m.cursors[c]
        page == cur.coupled_page
        entry == r.m.pages[page].slots[cur.coupled_index]
        pinned == page_add_ref(r.m, page)
    IN  IF r.st # HAM_SUCCESS
        THEN MoveResult(r.st, r.m, NoKey, NoRecord)
        ELSE IF wantkey /\ "readkey" \in r.m.faults
        THEN MoveResult(HAM_OUT_OF_MEMORY, page_release_ref(pinned, page),
                        NoKey, NoRecord)
        ELSE IF wantrec
                /\ ("readrec" \in r.m.faults \/ ~Readable(r.m, entry))
        THEN MoveResult(ReadRecordStatus(r.m, entry),
                        page_release_ref(pinned, page),
                        IF wantkey THEN util_read_key(entry) ELSE NoKey,
                        NoRecord)
        ELSE MoveResult(HAM_SUCCESS, page_release_ref(pinned, page),
                        IF wantkey THEN util_read_key(entry) ELSE NoKey,
                        IF wantrec THEN util_read_record(r.m, entry)
                        ELSE NoRecord)

\* lines 857-953 of bt_cursor_move, the transaction begun; `local' tells
\* whether it is the operation's own
MoveInTxn(m, c, wantkey, wantrec, flags0, local) ==
    LET flags == SeedDirection(m.cursors[c], flags0)
    IN  IF flags \cap {HAM_CURSOR_FIRST, HAM_CURSOR_LAST, HAM_CURSOR_NEXT,
                       HAM_CURSOR_PREVIOUS} = {}
           /\ bt_cursor_is_nil(m.cursors[c])
        THEN MoveResult(NilMoveStatus(wantkey, wantrec),
                        AbortLocal(m, local), NoKey, NoRecord)
        ELSE EndLocal(ReadAtCursor(Dispatch(m, c, flags), c, wantkey,
                                   wantrec),
                      local)

bt_cursor_move(m, c, wantkey, wantrec, flags0) ==
    MoveInTxn(BeginLocal(m), c, wantkey, wantrec, flags0, local_txn(m))

\* lines 537-541 and 565-570: link a cursor at the head of the database's
\* list
LinkAtHead(m, c) ==
    LET m1 == [m EXCEPT !.cursors[c].next = m.head]
        m2 == IF m.head # 0
              THEN [m1 EXCEPT !.cursors[m.head].previous = c]
              ELSE m1
    IN  [m2 EXCEPT !.head = c]

bt_cursor_create(m, c) ==
    LinkAtHead([alloc_impl(m, <<MEM_CURSOR, c>>)
                   EXCEPT !.cursors[c] = [ZeroCursor EXCEPT !.open = TRUE]],
               c)

\* CloneMode that does not put the new cursor on the page's list
CloneMode_NoAdd(m2, oldcu, c) ==
    LET old == m2.cursors[oldcu]
        m3 == IF BT_CURSOR_FLAG_COUPLED \in old.flags
              THEN [m2 EXCEPT !.cursors[c].coupled_page = old.coupled_page]
              ELSE IF BT_CURSOR_FLAG_UNCOUPLED \in old.flags
              THEN CopyKeyTo(m2, c, old.uncoupled_key)
              ELSE m2
    IN  IF BT_CURSOR_FLAG_UNCOUPLED \in old.flags
           /\ BT_CURSOR_FLAG_COUPLED \notin old.flags
           /\ "keycopy" \in m2.faults
        THEN [st |-> HAM_OUT_OF_MEMORY, m |-> m2]
        ELSE [st |-> HAM_SUCCESS,
              m |-> [m3 EXCEPT !.cursors[c].dupe_id = old.dupe_id]]

\* lines 575-613 of bt_cursor_clone: the new cursor takes the old one's
\* mode
CloneMode(m2, oldcu, c) ==
    LET old == m2.cursors[oldcu]
        m3 == IF BT_CURSOR_FLAG_COUPLED \in old.flags
              THEN [page_add_cursor(m2, old.coupled_page, c)
                        EXCEPT !.cursors[c].coupled_page = old.coupled_page]
              ELSE IF BT_CURSOR_FLAG_UNCOUPLED \in old.flags
              THEN CopyKeyTo(m2, c, old.uncoupled_key)
              ELSE m2
    IN  IF BT_CURSOR_FLAG_UNCOUPLED \in old.flags
           /\ BT_CURSOR_FLAG_COUPLED \notin old.flags
           /\ "keycopy" \in m2.faults
        THEN [st |-> HAM_OUT_OF_MEMORY, m |-> m2]
        ELSE [st |-> HAM_SUCCESS,
              m |-> [m3 EXCEPT !.cursors[c].dupe_id = old.dupe_id]]

\* lines 558-568 of bt_cursor_clone: memcpy of the old cursor, then the
\* copy is linked into the database's list
CloneLinked(m, oldcu, c) ==
    LinkAtHead([alloc_impl(m, <<MEM_CURSOR, c>>)
                   EXCEPT !.cursors[c] =
                             [m.cursors[oldcu] EXCEPT !.previous = 0]], c)

bt_cursor_clone(m, oldcu, c) ==
    EndLocal(CloneMode(BeginLocal(CloneLinked(m, oldcu, c)), oldcu, c),
             local_txn(m))

\* lines 627-639: unlink the cursor from the database's list
UnlinkCursor(m, c) ==
    LET p == m.cursors[c].previous
        n == m.cursors[c].next
        m1 == IF p # 0 THEN [m EXCEPT !.cursors[p].next = n]
              ELSE [m EXCEPT !.head = n]
    IN  IF n # 0 THEN [m1 EXCEPT !.cursors[n].previous = p]
        ELSE [m1 EXCEPT !.head = 0]

bt_cursor_close(m, c) ==
    LET m1 == bt_cursor_set_to_nil(UnlinkCursor(m, c), c)
    IN  [st |-> HAM_SUCCESS,
         m |-> [free_impl(m1, <<MEM_CURSOR, c>>)
                   EXCEPT !.cursors[c] = ZeroCursor]]

\* the slot is rewritten in place and its page is dirty
SetEntry(m, pid, i, entry) ==
    [m EXCEPT !.pages[pid].slots[i] = entry, !.pages[pid].dirty = TRUE]

\* lines 739-828 of bt_cursor_overwrite: the record of slot i of the page
\* is replaced; m.stack is what the uninitialized local `rid' holds
OverwriteEntry(m, pid, i, record) ==
    LET key == m.pages[pid].slots[i]
        stripped == key.flags \ SizeFlags
    IN  IF Len(record) = 0
        THEN [st |-> HAM_SUCCESS,
              m |-> SetEntry(IF HoldsBlob(key)
                             THEN blob_free(m, WordVal(key.ptr)) ELSE m,
                             pid, i,
                             [key EXCEPT !.ptr = Word(0),
                                         !.flags = stripped
                                             \cup {KEY_BLOB_SIZE_EMPTY}])]
        ELSE IF Len(record) > PtrWidth
        THEN IF "blob" \in m.faults
             THEN [st |-> HAM_OUT_OF_MEMORY,
                   m |-> [m EXCEPT !.pages[pid].slots[i].flags = stripped]]
             ELSE IF ~Readable(m, key)
             THEN [st |-> HAM_BLOB_NOT_FOUND, m |-> m]
             ELSE IF HoldsBlob(key)
             THEN [st |-> HAM_SUCCESS,
                   m |-> SetEntry(
                            blob_overwrite(m, WordVal(key.ptr), record),
                            pid, i,
                            [key EXCEPT
                               !.ptr = Word(blob_overwrite_rid(
                                                m, WordVal(key.ptr))),
                               !.flags = stripped])]
             ELSE [st |-> HAM_SUCCESS,
                   m |-> SetEntry(blob_allocate(m, record), pid, i,
                                  [key EXCEPT
                                     !.ptr = Word(Len(m.blobs) + 1),
                                     !.flags = stripped])]
        ELSE [st |-> HAM_SUCCESS,
              m |-> SetEntry(IF HoldsBlob(key)
                             THEN blob_free(m, WordVal(key.ptr)) ELSE m,
                             pid, i,
                             [key EXCEPT
                                !.ptr = RecordWord(record, m.stack),
                                !.flags = stripped
                                    \cup RecordFlags(record)])]

\* a variant of Unpinned that releases the page after a success only
Unpinned_OnSuccess(r, pid) ==
    IF r.st = HAM_SUCCESS THEN [r EXCEPT !.m = page_release_ref(@, pid)]
    ELSE r

\* lines 789 and 827: the pin is released, whatever the result r
Unpinned(r, pid) == [r EXCEPT !.m = page_release_ref(@, pid)]

\* lines 683-833 of bt_cursor_overwrite, r the result of the coupling; the
\* page is pinned at line 688 while its slot is rewritten
OverwriteCoupled(r, c, record, local) ==
    LET page == r.m.cursors[c].coupled_page
    IN  IF r.st # HAM_SUCCESS
        THEN [st |-> r.st, m |-> AbortLocal(r.m, local)]
        ELSE EndLocal(Unpinned(OverwriteEntry(page_add_ref(r.m, page), page,
                                              r.m.cursors[c].coupled_index,
                                              record),
                               page),
                      local)

\* lines 667-833 of bt_cursor_overwrite, the transaction begun
OverwriteInTxn(m, c, record, local) ==
    IF BT_CURSOR_FLAG_UNCOUPLED \in m.cursors[c].flags
    THEN OverwriteCoupled(bt_cursor_couple(m, c), c, record, local)
    ELSE IF BT_CURSOR_FLAG_COUPLED \notin m.cursors[c].flags
    THEN [st |-> HAM_CURSOR_IS_NIL, m |-> AbortLocal(m, local)]
    ELSE OverwriteCoupled([st |-> HAM_SUCCESS, m |-> m], c, record, local)

bt_cursor_overwrite(m, c, record) ==
    OverwriteInTxn(BeginLocal(m), c, record, local_txn(m))

\* btree_insert_cursor: btree_insert, then the cursor is coupled to the
\* slot that holds the new key; r is the result of btree_insert
InsertCoupled(r, c, key) ==
    IF r.st # HAM_SUCCESS
    THEN [st |-> r.st, m |-> r.m]
    ELSE [st |-> HAM_SUCCESS,
          m |-> CoupleTo(r.m, c, FindLeaf(r.m, r.m.rootpage, key),
                         btree_node_search_by_key(
                            r.m.pages[FindLeaf(r.m, r.m.rootpage, key)],
                            key))]

btree_insert_cursor(m, key, record, c, flags) ==
    InsertCoupled(btree_insert(m, key, record, flags), c, key)

\* bt_cursor_insert that leaves the cursor as it is before it inserts
bt_cursor_insert_NoNil(m, c, key, record, flags) ==
    EndLocal(btree_insert_cursor(BeginLocal(m), key, record, c, flags),
             local_txn(m))

bt_cursor_insert(m, c, key, record, flags) ==
    EndLocal(btree_insert_cursor(bt_cursor_set_to_nil(BeginLocal(m), c),
                                 key, record, c, flags),
             local_txn(m))

\* the uncoupling hook of the erase: every cursor coupled to the page is
\* uncoupled, each keeping a copy of its key
UncoupleAllOn(m, pid) ==
    [m EXCEPT
       !.cursors = [x \in DOMAIN m.cursors |->
            IF BT_CURSOR_FLAG_COUPLED \in m.cursors[x].flags
               /\ m.cursors[x].coupled_page = pid
            THEN [m.cursors[x] EXCEPT
                    !.flags = (@ \ {BT_CURSOR_FLAG_COUPLED})
                                  \cup {BT_CURSOR_FLAG_UNCOUPLED},
                    !.uncoupled_key =
                        m.pages[pid].slots[m.cursors[x].coupled_index].key,
                    !.keyptr = x]
            ELSE m.cursors[x]],
       !.mem = [live |-> @.live \cup
                    ({MEM_KEY, MEM_KEYDATA} \X
                     {x \in DOMAIN m.cursors :
                        /\ BT_CURSOR_FLAG_COUPLED \in m.cursors[x].flags
                        /\ m.cursors[x].coupled_page = pid}),
                bad |-> @.bad,
                lost |-> @.lost \/
                    \E x \in DOMAIN m.cursors :
                        /\ BT_CURSOR_FLAG_COUPLED \in m.cursors[x].flags
                        /\ m.cursors[x].coupled_page = pid
                        /\ <<MEM_KEY, x>> \in @.live],
       !.pages[pid].cursors = <<>>]

\* memmove of the erase: slots (i, count) move one slot to the left
ShiftLeft(page, i) ==
    [j \in 0..(maxkeys - 1) |->
        IF j >= i /\ j < page.count - 1 THEN page.slots[j + 1]
        ELSE page.slots[j]]

\* the erase of slot i of a leaf: its blob is freed, the slot is removed
EraseSlot(m, pid, i) ==
    [(IF HoldsBlob(m.pages[pid].slots[i])
      THEN blob_free(m, WordVal(m.pages[pid].slots[i].ptr)) ELSE m)
     EXCEPT !.pages[pid].slots = ShiftLeft(m.pages[pid], i),
            !.pages[pid].count = @ - 1,
            !.pages[pid].dirty = TRUE]

\* btree_erase_cursor: the key is looked up from the root and removed from
\* its leaf
btree_erase_cursor(m, key, c) ==
    LET leaf == FindLeaf(m, m.rootpage, key)
        idx == btree_node_search_by_key(m.pages[leaf], key)
    IN  IF idx < 0
        THEN [st |-> HAM_KEY_NOT_FOUND, m |-> m]
        ELSE [st |-> HAM_SUCCESS,
              m |-> EraseSlot(UncoupleAllOn(m, leaf), leaf, idx)]

\* EraseDone that leaves the cursor as the erase engine left it
EraseDone_NoNil(r, c, local) ==
    IF r.st # HAM_SUCCESS
    THEN [st |-> r.st, m |-> AbortLocal(r.m, local)]
    ELSE [st |-> HAM_SUCCESS,
          m |-> IF local THEN ham_txn_commit(r.m) ELSE r.m]

\* lines 1085-1099 of bt_cursor_erase, r the result of btree_erase_cursor
EraseDone(r, c, local) ==
    IF r.st # HAM_SUCCESS
    THEN [st |-> r.st, m |-> AbortLocal(r.m, local)]
    ELSE IF local
    THEN [st |-> HAM_SUCCESS,
          m |-> ham_txn_commit(bt_cursor_set_to_nil(r.m, c))]
    ELSE [st |-> HAM_SUCCESS, m |-> bt_cursor_set_to_nil(r.m, c)]

\* lines 1076-1099 of bt_cursor_erase, r the result of the uncoupling
EraseUncoupled(r, c, local) ==
    IF r.st # HAM_SUCCESS
    THEN r
    ELSE EraseDone(btree_erase_cursor(r.m, r.m.cursors[c].uncoupled_key,
                                      c),
                   c, local)

\* lines 1073-1099 of bt_cursor_erase, the transaction begun
EraseInTxn(m, c, local) ==
    IF BT_CURSOR_FLAG_COUPLED \in m.cursors[c].flags
    THEN EraseUncoupled(bt_cursor_uncouple(m, c, {}), c, local)
    ELSE IF BT_CURSOR_FLAG_UNCOUPLED \notin m.cursors[c].flags
    THEN [st |-> HAM_CURSOR_IS_NIL, m |-> m]
    ELSE EraseUncoupled([st |-> HAM_SUCCESS, m |-> m], c, local)

bt_cursor_erase(m, c) == EraseInTxn(BeginLocal(m), c, local_txn(m))

----------------------------------------------------------------------------
(* The state as the operations see it, and back *)

DB == [pages |-> pages, blobs |-> blobs, rootpage |-> rootpage,
       dirty |-> db_dirty, cursors |-> cursors, head |-> db_cursors,
       txn |-> db_txn, mem |-> mem, log |-> <<>>, links |-> <<>>,
       pins |-> <<>>, faults |-> {}, relocate |-> FALSE, stack |-> Word(0)]

Commit(m) ==
    /\ pages' = m.pages
    /\ blobs' = m.blobs
    /\ rootpage' = m.rootpage
    /\ db_dirty' = m.dirty
    /\ cursors' = m.cursors
    /\ db_cursors' = m.head
    /\ db_txn' = m.txn
    /\ mem' = m.mem

\* `from' is the state the call found the cursor in: its flags; `txn' is
\* the transaction the call found active, `log' what the call did to
\* transactions, `links' the sibling links it wrote and `pins' the
\* reference counts it left on pages, one entry per change
Call(op, c, key, record, flags, st, outkey, outrec) ==
    [op |-> op, c |-> c, key |-> key, record |-> record, flags |-> flags,
     st |-> st, outkey |-> outkey, outrec |-> outrec,
     from |-> IF c \in DOMAIN cursors THEN cursors[c].flags ELSE {},
     txn |-> db_txn, log |-> <<>>, links |-> <<>>, pins |-> <<>>]

NoCall == Call("none", 0, NoKey, NoRecord, {}, HAM_SUCCESS, NoKey, NoRecord)

\* ham_create of an in-memory database: an empty root leaf, no cursors;
\* `handles' is the number of cursor handles the caller may hold
InitDb(handles) ==
    /\ maxkeys \in MinMaxKeys..MaxMaxKeys
    /\ pages = <<NewPage(PAGE_TYPE_ROOT)>>
    /\ rootpage = 1
    /\ db_dirty = FALSE
    /\ blobs = <<>>
    /\ cursors = [c \in 1..handles |-> ZeroCursor]
    /\ db_cursors = 0
    /\ db_txn = TXN_NONE
    /\ mem = NoMem
    /\ inserted = <<>>
    /\ last = NoCall

----------------------------------------------------------------------------
(* Operations *)

\* the user's HAM_OVERWRITE reaches btree_insert in scratchpad.flags only
InsertDone(r, key, record, flags) ==
    /\ Commit(r.m)
    /\ inserted' = IF r.st = HAM_SUCCESS /\ key \notin DOMAIN inserted
                   THEN (key :> record) @@ inserted
                   ELSE inserted
    /\ last' = [Call("insert", 0, key, record, flags, r.st, NoKey,
                      NoRecord) EXCEPT !.links = r.m.links,
                                       !.pins = r.m.pins]
    /\ UNCHANGED maxkeys

Insert(key, record, flags) ==
    InsertDone(btree_insert(DB, key, record, flags), key, record, flags)

\* a cursor call returns: memory, the record of the call and the keys the
\* tree holds by now
Finished(r, call, ins) ==
    /\ Commit(r.m)
    /\ last' = [call EXCEPT !.st = r.st, !.log = r.m.log,
                            !.links = r.m.links, !.pins = r.m.pins]
    /\ inserted' = ins
    /\ UNCHANGED maxkeys

Returned(r, call) == Finished(r, call, inserted)

CursorCreate(c) ==
    /\ ~cursors[c].open
    /\ Returned([st |-> HAM_SUCCESS, m |-> bt_cursor_create(DB, c)],
                Call("create", c, NoKey, NoRecord, {}, HAM_SUCCESS, NoKey,
                     NoRecord))

CursorClone(oldcu, c) ==
    /\ cursors[oldcu].open
    /\ ~cursors[c].open
    /\ Returned(bt_cursor_clone(DB, oldcu, c),
                Call("clone", c, NoKey, NoRecord, {}, HAM_SUCCESS, NoKey,
                     NoRecord))

\* a clone during which the named allocation fails
CursorCloneFailing(oldcu, c, fault) ==
    /\ cursors[oldcu].open
    /\ ~cursors[c].open
    /\ Returned(bt_cursor_clone([DB EXCEPT !.faults = {fault}], oldcu, c),
                Call("clone", c, NoKey, NoRecord, {}, HAM_SUCCESS, NoKey,
                     NoRecord))

CursorClose(c) ==
    /\ cursors[c].open
    /\ Returned(bt_cursor_close(DB, c),
                Call("close", c, NoKey, NoRecord, {}, HAM_SUCCESS, NoKey,
                     NoRecord))

\* the key and the record bt_cursor_move wrote go to the caller as well
MoveReturned(r, call) ==
    Returned(r, [call EXCEPT !.outkey = r.key, !.outrec = r.rec])

CursorMove(c, wantkey, wantrec, flags) ==
    /\ cursors[c].open
    /\ MoveReturned(bt_cursor_move(DB, c, wantkey, wantrec, flags),
                    Call("move", c, IF wantkey THEN 1 ELSE NoKey,
                         IF wantrec THEN <<>> ELSE NoRecord, flags,
                         HAM_SUCCESS, NoKey, NoRecord))

\* the pager or an erase uncouples a coupled cursor
CursorUncouple(c) ==
    /\ cursors[c].open
    /\ BT_CURSOR_FLAG_COUPLED \in cursors[c].flags
    /\ Returned(bt_cursor_uncouple(DB, c, {}),
                Call("uncouple", c, NoKey, NoRecord, {}, HAM_SUCCESS, NoKey,
                     NoRecord))

\* an uncouple in whatever state the cursor is, with the caller's flags,
\* the allocation of the key copy failing or not
CursorUncoupleAny(c, flags, faults) ==
    /\ cursors[c].open
    /\ Returned(bt_cursor_uncouple([DB EXCEPT !.faults = faults], c, flags),
                Call("uncouple", c, NoKey, NoRecord, flags, HAM_SUCCESS,
                     NoKey, NoRecord))

\* the caller or the pager couples an uncoupled cursor
CursorCouple(c) ==
    /\ cursors[c].open
    /\ BT_CURSOR_FLAG_UNCOUPLED \in cursors[c].flags
    /\ Returned(bt_cursor_couple(DB, c),
                Call("couple", c, NoKey, NoRecord, {}, HAM_SUCCESS, NoKey,
                     NoRecord))

CursorSetToNil(c) ==
    /\ cursors[c].open
    /\ Returned([st |-> HAM_SUCCESS, m |-> bt_cursor_set_to_nil(DB, c)],
                Call("set_to_nil", c, NoKey, NoRecord, {}, HAM_SUCCESS,
                     NoKey, NoRecord))

InsertReturned(r, call) ==
    Finished(r, call,
             IF r.st = HAM_SUCCESS /\ call.key \notin DOMAIN inserted
             THEN (call.key :> call.record) @@ inserted
             ELSE inserted)

CursorInsert(c, key, record, flags) ==
    /\ cursors[c].open
    /\ InsertReturned(bt_cursor_insert(DB, c, key, record, flags),
                      Call("cursor_insert", c, key, record, flags,
                           HAM_SUCCESS, NoKey, NoRecord))

\* the record the tree holds for the key the cursor is on changes
OverwriteReturned(r, call, key) ==
    Finished(r, call,
             IF r.st = HAM_SUCCESS /\ key \in DOMAIN inserted
             THEN (key :> call.record) @@ inserted
             ELSE inserted)

\* the key of the slot the cursor refers to, coupled or not
KeyAtCursor(cur) ==
    IF BT_CURSOR_FLAG_UNCOUPLED \in cur.flags THEN cur.uncoupled_key
    ELSE IF BT_CURSOR_FLAG_COUPLED \in cur.flags
    THEN pages[cur.coupled_page].slots[cur.coupled_index].key
    ELSE NoKey

\* the key of the slot an overwrite through the cursor writes; a coupled
\* cursor whose index is beyond the page's count writes no key's slot
LiveKeyAtCursor(cur) ==
    IF BT_CURSOR_FLAG_COUPLED \in cur.flags
       /\ cur.coupled_index >= pages[cur.coupled_page].count
    THEN NoKey
    ELSE KeyAtCursor(cur)

\* relocate: what the blob store does; stack: the bytes of the
\* uninitialized local
CursorOverwrite(c, record, relocate, stack) ==
    /\ cursors[c].open
    /\ OverwriteReturned(
          bt_cursor_overwrite([DB EXCEPT !.relocate = relocate,
                                         !.stack = stack], c, record),
          Call("overwrite", c, NoKey, record, {}, HAM_SUCCESS, NoKey,
               NoRecord),
          LiveKeyAtCursor(cursors[c]))

\* the key the cursor was on is gone from the tree
EraseReturned(r, call, key) ==
    Finished(r, call,
             IF r.st = HAM_SUCCESS
             THEN [k \in DOMAIN inserted \ {key} |-> inserted[k]]
             ELSE inserted)

\* the erase subsystem is modelled for a tree of one leaf, where removing
\* a slot needs no merge; an erase through a NIL cursor does not reach it
CursorErase(c) ==
    /\ cursors[c].open
    /\ bt_cursor_is_nil(cursors[c]) \/ btree_node_is_leaf(pages[rootpage])
    /\ EraseReturned(bt_cursor_erase(DB, c),
                     Call("erase", c, KeyAtCursor(cursors[c]), NoRecord, {},
                          HAM_SUCCESS, NoKey, NoRecord),
                     KeyAtCursor(cursors[c]))

\* the caller's own transaction
TxnBegin ==
    /\ db_txn = TXN_NONE
    /\ db_txn' = TXN_OUTER
    /\ last' = Call("txn_begin", 0, NoKey, NoRecord, {}, HAM_SUCCESS, NoKey,
                    NoRecord)
    /\ UNCHANGED <<maxkeys, pages, rootpage, db_dirty, blobs, cursors,
                   db_cursors, mem, inserted>>

TxnEnd ==
    /\ db_txn = TXN_OUTER
    /\ db_txn' = TXN_NONE
    /\ last' = Call("txn_end", 0, NoKey, NoRecord, {}, HAM_SUCCESS, NoKey,
                    NoRecord)
    /\ UNCHANGED <<maxkeys, pages, rootpage, db_dirty, blobs, cursors,
                   db_cursors, mem, inserted>>

\* an insert during which the named step fails
InsertFailing(key, record, fault) ==
    InsertDone(btree_insert([DB EXCEPT !.faults = {fault}], key, record,
                            {}),
               key, record, {})

CursorFind(c, key) ==
    /\ cursors[c].open
    /\ Returned(bt_cursor_find(DB, c, key),
                Call("find", c, key, NoRecord, {}, HAM_SUCCESS, NoKey,
                     NoRecord))

\* my_insert_nosplit called for the key that slot i of the page holds
InsertNosplit(pid, i, record, flags) ==
    /\ i < pages[pid].count
    /\ Returned(my_insert_nosplit(DB, pid, pages[pid].slots[i].key, Word(0),
                                  record, flags),
                Call("nosplit", 0, pages[pid].slots[i].key, record, flags,
                     HAM_SUCCESS, NoKey, NoRecord))

\* a move during which the named read fails
CursorMoveFailing(c, wantkey, wantrec, flags, fault) ==
    /\ cursors[c].open
    /\ MoveReturned(bt_cursor_move([DB EXCEPT !.faults = {fault}], c,
                                   wantkey, wantrec, flags),
                    Call("move", c, IF wantkey THEN 1 ELSE NoKey,
                         IF wantrec THEN <<>> ELSE NoRecord, flags,
                         HAM_SUCCESS, NoKey, NoRecord))

\* an overwrite during which the blob store fails
CursorOverwriteFailing(c, record, fault) ==
    /\ cursors[c].open
    /\ OverwriteReturned(
          bt_cursor_overwrite([DB EXCEPT !.faults = {fault}], c, record),
          Call("overwrite", c, NoKey, record, {}, HAM_SUCCESS, NoKey,
               NoRecord),
          LiveKeyAtCursor(cursors[c]))

----------------------------------------------------------------------------
(* Specification of the tree alone: inserts of keys with empty records *)

Keys == 1..MaxKey

Init == InitDb(0)

Next == \E k \in Keys : Insert(k, <<>>, {})

Spec == Init /\ [][Next]_vars

----------------------------------------------------------------------------
(* Reading the tree *)

\* FIRST, then NEXT until it fails: the keys read and the status that
\* ended the walk, by a cursor of its own
RECURSIVE WalkNext(_, _)
WalkNext(m, fuel) ==
    LET r == bt_cursor_move(m, 1, TRUE, FALSE, {HAM_CURSOR_NEXT})
    IN  IF r.st # HAM_SUCCESS THEN [keys |-> <<>>, st |-> r.st]
        ELSE IF fuel = 0 THEN [keys |-> <<r.key>>, st |-> "MORE"]
        ELSE LET w == WalkNext(r.m, fuel - 1)
             IN  [keys |-> <<r.key>> \o w.keys, st |-> w.st]

Walk ==
    LET m0 == [DB EXCEPT !.cursors = <<[ZeroCursor EXCEPT !.open = TRUE]>>]
        r == bt_cursor_move(m0, 1, TRUE, FALSE, {HAM_CURSOR_FIRST})
    IN  IF r.st # HAM_SUCCESS THEN [keys |-> <<>>, st |-> r.st]
        ELSE LET w == WalkNext(r.m, Cardinality(DOMAIN inserted) + 1)
             IN  [keys |-> <<r.key>> \o w.keys, st |-> w.st]

\* the keys of a set in increasing order
RECURSIVE Sorted(_)
Sorted(S) ==
    IF S = {} THEN <<>> ELSE <<Min(S)>> \o Sorted(S \ {Min(S)})

\* the depth of the tree: pages on the leftmost path
RECURSIVE Depth(_)
Depth(pid) ==
    IF btree_node_is_leaf(pages[pid]) THEN 1
    ELSE 1 + Depth(pages[pid].ptr_left)

\* the leaf slot that holds the key (NoEntry when no leaf slot does), as a
\* lookup from the root finds it
SlotOf(key) ==
    LET leaf == FindLeaf(DB, rootpage, key)
        idx == btree_node_search_by_key(pages[leaf], key)
    IN  IF idx < 0 THEN NoEntry ELSE pages[leaf].slots[idx]

\* the record a find of the key returns (NoRecord when the key is not found)
Lookup(key) ==
    IF SlotOf(key) = NoEntry THEN NoRecord
    ELSE util_read_record(DB, SlotOf(key))

\* the leaf a lookup of the key ends in
LeafOf(key) == pages[FindLeaf(DB, rootpage, key)]

\* whether inserting the key now splits the root page
RootSplits(key, record, flags) ==
    my_insert_recursive(DB, rootpage, key, Word(0),
        [key |-> 0, rid |-> Word(0), record |-> record,
         flags |-> flags]).st = SPLIT

----------------------------------------------------------------------------
(* Specification of inserts with two records and the overwrite flag *)

\* keys are 1..DupMaxKey
DupMaxKey == 4

SmallRecords == {<<>>, <<7>>}

NextDup ==
    \E k \in 1..DupMaxKey : \E r \in SmallRecords :
        \E f \in {{}, {HAM_OVERWRITE}} : Insert(k, r, f)

SpecDup == Init /\ [][NextDup]_vars

----------------------------------------------------------------------------
(* Specification of record encoding: one record of any shape per run *)

\* keys are 1..RecMaxKey
RecMaxKey == 3
\* records are up to PtrWidth + MaxBlobExtra bytes long
MaxBlobExtra == 1

\* records of length n: all zero, all 255, only the first byte set, only
\* the last byte set
RecordsOfLen(n) ==
    { [i \in 1..n |-> IF i \in S THEN 255 ELSE 0] :
        S \in {{}, 1..n, {1}, {n}} }

Records == UNION { RecordsOfLen(n) : n \in 0..(PtrWidth + MaxBlobExtra) }

NextRecord ==
    \E k \in 1..RecMaxKey : \E r \in Records :
        /\ r = <<>> \/ \A j \in DOMAIN inserted : inserted[j] = <<>>
        /\ Insert(k, r, {})

SpecRecord == Init /\ [][NextRecord]_vars

----------------------------------------------------------------------------
(* Specification of one cursor over a growing tree *)

\* keys are 1..CurMaxKey
CurMaxKey == 4

Directions ==
    {{}, {HAM_CURSOR_FIRST}, {HAM_CURSOR_LAST}, {HAM_CURSOR_NEXT},
     {HAM_CURSOR_PREVIOUS}}

InitCursor == InitDb(1)

NextCursor ==
    \/ \E k \in 1..CurMaxKey : Insert(k, <<>>, {})
    \/ \E c \in DOMAIN cursors : CursorCreate(c)
    \/ \E c \in DOMAIN cursors : \E wantkey, wantrec \in BOOLEAN :
          \E d \in Directions : CursorMove(c, wantkey, wantrec, d)
    \/ \E c \in DOMAIN cursors : \E k \in 1..CurMaxKey : CursorFind(c, k)
    \/ \E c \in DOMAIN cursors : CursorUncouple(c)

SpecCursor == InitCursor /\ [][NextCursor]_vars

----------------------------------------------------------------------------
(* Specification of the database's cursor list *)

\* the caller holds up to MaxCursors cursor handles
MaxCursors == 3

InitList == InitDb(MaxCursors)

NextList ==
    \/ \E c \in DOMAIN cursors : CursorCreate(c)
    \/ \E oldcu, c \in DOMAIN cursors : CursorClone(oldcu, c)
    \/ \E c \in DOMAIN cursors : CursorClose(c)

SpecList == InitList /\ [][NextList]_vars

----------------------------------------------------------------------------
(* Specification of every cursor operation: one cursor over a tree that
   grows by splits, or two cursors over a tree of a few keys *)

\* with one cursor handle keys are 1..OpsMaxKey
OpsMaxKey == 3
\* with two cursor handles keys are 1..PairMaxKey
PairMaxKey == 1

OpsKeys == 1..(IF Len(cursors) = 1 THEN OpsMaxKey ELSE PairMaxKey)

InitOps == \E handles \in 1..2 : InitDb(handles) /\ maxkeys = MinMaxKeys

NextOps ==
    \/ \E c \in DOMAIN cursors : CursorCreate(c)
    \/ \E oldcu, c \in DOMAIN cursors : CursorClone(oldcu, c)
    \/ \E c \in DOMAIN cursors : CursorClose(c)
    \/ \E c \in DOMAIN cursors : \E d \in Directions :
          CursorMove(c, TRUE, TRUE, d)
    \/ \E c \in DOMAIN cursors : \E k \in OpsKeys : CursorFind(c, k)
    \/ \E c \in DOMAIN cursors : \E k \in OpsKeys :
          CursorInsert(c, k, <<>>, {})
    \/ \E c \in DOMAIN cursors :
          CursorOverwrite(c, <<7>>, FALSE, Word(0))
    \/ \E c \in DOMAIN cursors : CursorErase(c)
    \/ \E c \in DOMAIN cursors : CursorCouple(c)
    \/ \E c \in DOMAIN cursors : CursorUncouple(c)
    \/ \E c \in DOMAIN cursors : CursorSetToNil(c)

SpecOps == InitOps /\ [][NextOps]_vars

----------------------------------------------------------------------------
(* Specification of the cursor operations of two cursors, with and without
   a transaction of the caller *)

\* keys are 1..TxnMaxKey
TxnMaxKey == 1

InitTxn == InitDb(2) /\ maxkeys = MinMaxKeys

NextTxn ==
    \/ TxnBegin
    \/ TxnEnd
    \/ \E c \in DOMAIN cursors : CursorCreate(c)
    \/ \E oldcu, c \in DOMAIN cursors : CursorClone(oldcu, c)
    \/ \E c \in DOMAIN cursors : \E wantkey \in BOOLEAN :
          \E d \in Directions : CursorMove(c, wantkey, wantkey, d)
    \/ \E c \in DOMAIN cursors : \E k \in 1..TxnMaxKey : CursorFind(c, k)
    \/ \E c \in DOMAIN cursors : \E k \in 1..TxnMaxKey :
          CursorInsert(c, k, <<>>, {})
    \/ \E c \in DOMAIN cursors :
          CursorOverwrite(c, <<7>>, FALSE, Word(0))
    \/ \E c \in DOMAIN cursors : CursorErase(c)
    \/ \E c \in DOMAIN cursors : CursorCouple(c)
    \/ \E c \in DOMAIN cursors : CursorUncouple(c)
    \/ \E c \in DOMAIN cursors : CursorSetToNil(c)

SpecTxn == InitTxn /\ [][NextTxn]_vars

----------------------------------------------------------------------------
(* Specification of inserts during which one step may fail *)

\* keys are 1..FaultMaxKey
FaultMaxKey == 3

\* steps fail while the file has fewer than FaultMaxPages pages
FaultMaxPages == 3
SibMaxKey == 5

\* the steps of an insert that can fail: a key comparison, the allocation
\* of a record's blob, the allocation of the sibling page, the copy of the
\* pivot key, the allocation of the new root
Faults == {"compare", "blob", "sibling", "copykey", "newroot"}

\* a record that is stored inline and one that needs a blob
FaultRecords == {<<>>, [i \in 1..(PtrWidth + 1) |-> 7]}

NextFault ==
    \/ \E k \in 1..FaultMaxKey : \E r \in FaultRecords : Insert(k, r, {})
    \/ \E k \in 1..FaultMaxKey : \E r \in FaultRecords :
          \E f \in Faults :
             Len(pages) < FaultMaxPages /\ InsertFailing(k, r, f)

SpecFault == Init /\ [][NextFault]_vars

\* uncouple in every state of the cursor; a cursor left on a page's list
\* by NO_REMOVE is listed again when it is coupled, so the lists are capped
UncMaxKey == 3
UncMaxListed == 2

InitUncouple == InitDb(1) /\ maxkeys = MinMaxKeys

NextUncouple ==
    \/ \E k \in 1..UncMaxKey : Insert(k, <<>>, {})
    \/ \E c \in DOMAIN cursors : CursorCreate(c)
    \/ \E c \in DOMAIN cursors : \E d \in Directions :
          CursorMove(c, TRUE, FALSE, d)
    \/ \E c \in DOMAIN cursors : CursorCouple(c)
    \/ \E c \in DOMAIN cursors : CursorSetToNil(c)
    \/ \E c \in DOMAIN cursors :
          \E flags \in {{}, {BT_CURSOR_UNCOUPLE_NO_REMOVE}} :
             \E faults \in {{}, {"keycopy"}} :
                /\ \A p \in DOMAIN pages :
                      Len(pages[p].cursors) < UncMaxListed
                /\ CursorUncoupleAny(c, flags, faults)

SpecUncouple == InitUncouple /\ [][NextUncouple]_vars

\* inserts of which some find no page to allocate for a sibling
SiblingKeys == 1..SibMaxKey

NextSibling ==
    \/ \E k \in SiblingKeys : Insert(k, <<>>, {})
    \/ \E k \in SiblingKeys : InsertFailing(k, <<>>, "sibling")

SpecSibling == Init /\ [][NextSibling]_vars

----------------------------------------------------------------------------
(* Specification of overwrites through one cursor, records of every shape *)

\* keys are 1..OvwMaxKey
OvwMaxKey == 1
\* records are written while the blob store holds fewer than OvwMaxBlobs
\* blobs, live or freed
OvwMaxBlobs == 2

\* an empty, a tiny, a small record and two that need a blob
OvwRecords ==
    {<<>>, <<7>>, [i \in 1..PtrWidth |-> 7],
     [i \in 1..(PtrWidth + 1) |-> 7], [i \in 1..(PtrWidth + 1) |-> 9]}

\* what the uninitialized local `rid' of bt_cursor_overwrite may hold
Stacks == {Word(0), [i \in 0..(PtrWidth - 1) |-> 255]}

InitOverwrite == InitDb(1) /\ maxkeys = MinMaxKeys

NextOverwrite ==
    \/ \E k \in 1..OvwMaxKey : \E r \in OvwRecords :
          Len(blobs) < OvwMaxBlobs /\ Insert(k, r, {})
    \/ \E c \in DOMAIN cursors : CursorCreate(c)
    \/ \E c \in DOMAIN cursors : \E k \in 1..OvwMaxKey : CursorFind(c, k)
    \/ \E c \in DOMAIN cursors : CursorUncouple(c)
    \/ \E c \in DOMAIN cursors : \E r \in OvwRecords :
          \E relocate \in BOOLEAN : \E stack \in Stacks :
             Len(blobs) < OvwMaxBlobs
                /\ CursorOverwrite(c, r, relocate, stack)

SpecOverwrite == InitOverwrite /\ [][NextOverwrite]_vars

----------------------------------------------------------------------------
(* Specification of moves and overwrites through one cursor, some of which
   fail while the page is pinned *)

\* keys are 1..PinMaxKey
PinMaxKey == 2
\* records are written while the blob store holds fewer than PinMaxBlobs
\* blobs, live or freed
PinMaxBlobs == 1

\* a tiny record and one that needs a blob
PinRecords == {<<7>>, [i \in 1..(PtrWidth + 1) |-> 7]}

InitPin == InitDb(1) /\ maxkeys = MinMaxKeys

NextPin ==
    \/ \E k \in 1..PinMaxKey : \E r \in PinRecords :
          Len(blobs) < PinMaxBlobs /\ Insert(k, r, {})
    \/ \E c \in DOMAIN cursors : CursorCreate(c)
    \/ \E c \in DOMAIN cursors : \E d \in Directions :
          CursorMove(c, TRUE, TRUE, d)
    \/ \E c \in DOMAIN cursors : \E d \in Directions :
          \E fault \in {"readkey", "readrec"} :
             CursorMoveFailing(c, TRUE, TRUE, d, fault)
    \/ \E c \in DOMAIN cursors : CursorUncouple(c)
    \/ \E c \in DOMAIN cursors : \E r \in PinRecords :
          Len(blobs) < PinMaxBlobs
             /\ CursorOverwrite(c, r, FALSE, Word(0))
    \/ \E c \in DOMAIN cursors : \E r \in PinRecords :
          CursorOverwriteFailing(c, r, "blob")

SpecPin == InitPin /\ [][NextPin]_vars

----------------------------------------------------------------------------
(* Specification of my_insert_nosplit on pages that hold the key *)

\* keys are 1..NspMaxKey
NspMaxKey == 3

NextNosplit ==
    \/ \E k \in 1..NspMaxKey : \E r \in SmallRecords : Insert(k, r, {})
    \/ \E p \in DOMAIN pages : \E i \in 0..(maxkeys - 1) :
          \E r \in SmallRecords : \E f \in {{}, {OVERWRITE}} :
             InsertNosplit(p, i, r, f)

SpecNosplit == Init /\ [][NextNosplit]_vars

----------------------------------------------------------------------------
(* Specification of clones of one cursor, some of which fail *)

\* keys are 1..CloneMaxKey
CloneMaxKey == 3

InitClone == InitDb(2) /\ maxkeys = MinMaxKeys

\* cursor 1 is the source, cursor 2 the clone
NextClone ==
    \/ \E k \in 1..CloneMaxKey : Insert(k, <<>>, {})
    \/ CursorCreate(1)
    \/ \E k \in 1..CloneMaxKey : CursorFind(1, k)
    \/ CursorUncouple(1)
    \/ CursorClone(1, 2)
    \/ CursorCloneFailing(1, 2, "keycopy")

SpecClone == InitClone /\ [][NextClone]_vars

----------------------------------------------------------------------------
(* Reading cursors *)

\* the state after the step, as the operations see it
DBafter == [pages |-> pages', blobs |-> blobs', rootpage |-> rootpage',
            dirty |-> db_dirty', cursors |-> cursors', head |-> db_cursors',
            txn |-> db_txn', mem |-> mem', log |-> <<>>, links |-> <<>>,
            pins |-> <<>>, faults |-> {}, relocate |-> FALSE, stack |-> Word(0)]

\* a read through the cursor: a move without direction that asks for the
\* key
ReadThrough(m, c) ==
    LET r == bt_cursor_move(m, c, TRUE, FALSE, {})
    IN  [st |-> r.st, key |-> r.key]

\* the live leaf slots whose record is the blob
BlobRefs(ps, id) ==
    {pi \in (1..Len(ps)) \X (0..(maxkeys - 1)) :
        /\ btree_node_is_leaf(ps[pi[1]])
        /\ pi[2] < ps[pi[1]].count
        /\ ps[pi[1]].slots[pi[2]].flags \cap SizeFlags = {}
        /\ WordVal(ps[pi[1]].slots[pi[2]].ptr) = id}

\* no blob is leaked or freed twice: a live blob was never freed and is the
\* record of exactly one slot, a freed blob was freed once and is no slot's
\* record
BlobsAccounted(ps, bs) ==
    \A id \in DOMAIN bs :
        /\ bs[id].frees = IF bs[id].live THEN 0 ELSE 1
        /\ Cardinality(BlobRefs(ps, id)) = IF bs[id].live THEN 1 ELSE 0

\* the keys in the leaves below a page
RECURSIVE SubtreeKeys(_)
SubtreeKeys(pid) ==
    LET node == pages[pid]
    IN  IF btree_node_is_leaf(node)
        THEN { node.slots[i].key : i \in 0..(node.count - 1) }
        ELSE SubtreeKeys(node.ptr_left)
               \cup UNION { SubtreeKeys(WordVal(node.slots[i].ptr)) :
                               i \in 0..(node.count - 1) }

\* the index pages of the tree
InternalPages == { p \in 1..Len(pages) : ~btree_node_is_leaf(pages[p]) }

\* how often a page's cursor list holds the cursor
CursorCount(page, c) == Len(SelectSeq(page.cursors, LAMBDA x : x = c))

\* the database's cursor list, from a cursor on along the next pointers
RECURSIVE ListFrom(_, _)
ListFrom(c, fuel) ==
    IF c = 0 \/ fuel = 0 THEN <<>>
    ELSE <<c>> \o ListFrom(cursors[c].next, fuel - 1)

CursorList == ListFrom(db_cursors, Len(cursors) + 1)

----------------------------------------------------------------------------
(* Claims *)

\* C1: after any sequence of inserts, FIRST followed by NEXT until it fails
\* reads every successfully inserted key exactly once, in strictly
\* increasing order, and the walk ends with KEY_NOT_FOUND.
C1_WalkYieldsSortedKeys ==
    Walk = [keys |-> Sorted(DOMAIN inserted), st |-> HAM_KEY_NOT_FOUND]

C1_Witness ==
    /\ Depth(rootpage) >= 3
    /\ DOMAIN inserted = Keys
    /\ Walk.keys = Sorted(Keys)

\* C2: when an insert splits the root, the tree gets a newly allocated root
\* page whose left-pointer is the old root, whose only slot is the
\* scratchpad pivot pointing at the old root's new sibling; the database is
\* dirty, the old root is an index page still in place, and a walk reads
\* the keys from before the split plus the inserted key.
C2_RootSplit ==
    /\ [][\A k \in Keys :
            (last'.op = "insert" /\ last'.key = k
                /\ RootSplits(k, <<>>, {}))
            => LET sp == btree_insert(DB, k, <<>>, {}).sp
                   node == pages'[rootpage']
               IN  /\ last'.st = HAM_SUCCESS
                   /\ rootpage' = Len(pages')
                   /\ rootpage' > Len(pages)
                   /\ node.type = PAGE_TYPE_ROOT
                   /\ node.ptr_left = rootpage
                   /\ node.count = 1
                   /\ node.slots[0].key = sp.key
                   /\ node.slots[0].ptr = sp.rid
                   /\ WordVal(node.slots[0].ptr) = pages'[rootpage].right
                   /\ WordVal(node.slots[0].ptr) > Len(pages)
                   /\ db_dirty'
                   /\ pages'[rootpage].type = PAGE_TYPE_INDEX
                   /\ inserted' = (k :> <<>>) @@ inserted
         ]_vars
    /\ [](rootpage = Len(pages)
            => Walk = [keys |-> Sorted(DOMAIN inserted),
                       st |-> HAM_KEY_NOT_FOUND])

C2_Witness ==
    /\ last.op = "insert"
    /\ Depth(rootpage) >= 3
    /\ pages[rootpage].count = 1
    /\ pages[pages[rootpage].ptr_left].type = PAGE_TYPE_INDEX

\* C3: an insert of a key that is already there, without the overwrite
\* flag, returns DUPLICATE_KEY and changes nothing: pages, root, blobs and
\* the record a find returns, also when the key's leaf is full.
C3_DuplicateRejected ==
    [][\A k \in DOMAIN inserted :
          (last'.op = "insert" /\ HAM_OVERWRITE \notin last'.flags
              /\ last'.key = k)
          => /\ last'.st = HAM_DUPLICATE_KEY
             /\ UNCHANGED <<pages, rootpage, blobs, db_dirty>>
             /\ Lookup(k) = inserted[k]
      ]_vars

C3_Witness ==
    /\ last.op = "insert"
    /\ last.st = HAM_DUPLICATE_KEY
    /\ HAM_OVERWRITE \notin last.flags
    /\ LeafOf(last.key).count = maxkeys
    /\ last.record # inserted[last.key]

\* C4: an insert with the overwrite flag of a key that is already there
\* returns OK, and a find of the key then returns the new record.
C4_OverwriteReplaces ==
    (last.op = "insert" /\ HAM_OVERWRITE \in last.flags
        /\ last.key \in DOMAIN inserted)
    => (last.st = HAM_SUCCESS /\ Lookup(last.key) = last.record)

\* C5: every inserted record decodes, flags first, to the same bytes and
\* length; its slot carries exactly EMPTY for length 0, exactly TINY with
\* the length in the word's last byte and the data before it for lengths
\* below the pointer width, exactly SMALL at the pointer width, and no flag
\* and a live blob's ID above it.
C5_RecordRoundTrip ==
    \A k \in DOMAIN inserted :
        LET e == SlotOf(k)
            rec == inserted[k]
            n == Len(rec)
        IN  /\ e.key = k
            /\ util_read_record(DB, e) = rec
            /\ Len(util_read_record(DB, e)) = n
            /\ Cardinality(e.flags) <= 1
            /\ n = 0 => e.flags = {KEY_BLOB_SIZE_EMPTY}
            /\ (0 < n /\ n < PtrWidth)
                  => /\ e.flags = {KEY_BLOB_SIZE_TINY}
                     /\ e.ptr[PtrWidth - 1] = n
                     /\ \A i \in 1..n : e.ptr[i - 1] = rec[i]
            /\ n = PtrWidth => e.flags = {KEY_BLOB_SIZE_SMALL}
            /\ n > PtrWidth
                  => /\ e.flags = {}
                     /\ WordVal(e.ptr) \in 1..Len(blobs)
                     /\ blobs[WordVal(e.ptr)].live

C5_Witness ==
    /\ Depth(rootpage) >= 2
    /\ \E k \in DOMAIN inserted :
          /\ Len(inserted[k]) = PtrWidth
          /\ inserted[k][PtrWidth] = 0
          /\ Lookup(k) = inserted[k]

\* C6: a cursor positioned on key k still reads k (move without direction)
\* after an insert of another key, whether the insert shifts the slots of
\* the cursor's leaf or splits it.
C6_CursorKeepsKey ==
    [][\A c \in DOMAIN cursors :
          (/\ last'.op = "insert"
           /\ cursors[c].open
           /\ ~bt_cursor_is_nil(cursors[c])
           /\ ReadThrough(DB, c).st = HAM_SUCCESS
           /\ ReadThrough(DB, c).key \in DOMAIN inserted
           /\ last'.key # ReadThrough(DB, c).key)
          => ReadThrough(DBafter, c) = ReadThrough(DB, c)
      ]_vars

\* C7: on a NIL cursor NEXT returns what FIRST returns and leaves the
\* cursor where FIRST leaves it (on the smallest key when there is one),
\* PREVIOUS does so with LAST; a move without direction on a NIL cursor
\* returns CURSOR_IS_NIL exactly when a key or record buffer was given, OK
\* otherwise, and the cursor stays NIL.
C7_NilAutoSeed ==
    [][\A c \in DOMAIN cursors :
          (last'.op = "move" /\ last'.c = c /\ cursors[c].open
              /\ bt_cursor_is_nil(cursors[c]))
          => LET wantkey == last'.key # NoKey
                 wantrec == last'.record # NoRecord
                 first == bt_cursor_move(DB, c, wantkey, wantrec,
                                         {HAM_CURSOR_FIRST})
                 lst == bt_cursor_move(DB, c, wantkey, wantrec,
                                       {HAM_CURSOR_LAST})
             IN  /\ last'.flags = {HAM_CURSOR_NEXT}
                    => /\ last'.st = first.st
                       /\ last'.outkey = first.key
                       /\ last'.outrec = first.rec
                       /\ cursors' = first.m.cursors
                       /\ pages' = first.m.pages
                       /\ (wantkey /\ DOMAIN inserted # {})
                             => last'.outkey = Min(DOMAIN inserted)
                 /\ last'.flags = {HAM_CURSOR_PREVIOUS}
                    => /\ last'.st = lst.st
                       /\ last'.outkey = lst.key
                       /\ last'.outrec = lst.rec
                       /\ cursors' = lst.m.cursors
                       /\ pages' = lst.m.pages
                 /\ last'.flags = {}
                    => /\ last'.st = HAM_CURSOR_IS_NIL
                             <=> (wantkey \/ wantrec)
                       /\ last'.st = HAM_SUCCESS
                             <=> ~(wantkey \/ wantrec)
                       /\ bt_cursor_is_nil(cursors'[c])
                       /\ UNCHANGED <<pages, cursors>>
      ]_vars

C7_Witness ==
    /\ last.op = "move"
    /\ last.from = {}
    /\ last.flags = {HAM_CURSOR_NEXT}
    /\ last.st = HAM_SUCCESS
    /\ Depth(rootpage) >= 2
    /\ last.outkey = Min(DOMAIN inserted)
    /\ BT_CURSOR_FLAG_COUPLED \in cursors[last.c].flags

\* C8: on a tree without keys a move FIRST, LAST, NEXT or PREVIOUS returns
\* KEY_NOT_FOUND and leaves the cursor NIL; a NIL cursor stays NIL through
\* every step that is not a successful move or find of that cursor.
C8_EmptyTreeMoves ==
    [][\A c \in DOMAIN cursors :
          /\ (last'.op = "move" /\ last'.c = c /\ last'.flags # {}
                  /\ DOMAIN inserted = {} /\ pages[rootpage].count = 0)
              => /\ last'.st = HAM_KEY_NOT_FOUND
                 /\ bt_cursor_is_nil(cursors'[c])
          /\ (/\ cursors[c].open
              /\ bt_cursor_is_nil(cursors[c])
              /\ ~(last'.op \in {"move", "find"} /\ last'.c = c
                      /\ last'.st = HAM_SUCCESS))
              => bt_cursor_is_nil(cursors'[c])
      ]_vars

C8_Witness ==
    /\ last.op = "move"
    /\ last.flags = {HAM_CURSOR_PREVIOUS}
    /\ last.st = HAM_KEY_NOT_FOUND
    /\ DOMAIN inserted = {}
    /\ bt_cursor_is_nil(cursors[last.c])

\* C9: a find of a key that is in the tree returns OK and leaves the cursor
\* COUPLED (and nothing else) to the leaf slot holding that key, listed
\* once on that page and on no other; a find of a key that is not there
\* returns KEY_NOT_FOUND and leaves the cursor NIL, listed on no page,
\* wherever it was before.
C9_CursorFind ==
    [][\A c \in DOMAIN cursors :
          (last'.op = "find" /\ last'.c = c)
          => LET cur == cursors'[c]
                 page == pages'[cur.coupled_page]
             IN  /\ cur.uncoupled_key = 0
                 /\ IF last'.key \in DOMAIN inserted
                    THEN /\ last'.st = HAM_SUCCESS
                         /\ cur.flags = {BT_CURSOR_FLAG_COUPLED}
                         /\ btree_node_is_leaf(page)
                         /\ cur.coupled_index < page.count
                         /\ page.slots[cur.coupled_index].key = last'.key
                         /\ \A p \in 1..Len(pages') :
                               CursorCount(pages'[p], c)
                                 = IF p = cur.coupled_page THEN 1 ELSE 0
                    ELSE /\ last'.st = HAM_KEY_NOT_FOUND
                         /\ cur.flags = {}
                         /\ \A p \in 1..Len(pages') :
                               CursorCount(pages'[p], c) = 0
      ]_vars

C9_Witness ==
    /\ last.op = "find"
    /\ last.st = HAM_KEY_NOT_FOUND
    /\ BT_CURSOR_FLAG_COUPLED \in last.from
    /\ DOMAIN inserted # {}
    /\ bt_cursor_is_nil(cursors[last.c])

\* C10: the database's cursor list, followed from its head along the next
\* pointers, holds every open cursor exactly once and no closed cursor.
C10_ListHoldsOpenCursors ==
    /\ \A c \in DOMAIN cursors :
          cursors[c].open
              => Cardinality({i \in DOMAIN CursorList : CursorList[i] = c})
                     = 1
    /\ \A i \in DOMAIN CursorList : cursors[CursorList[i]].open

\* C11: every cursor operation that opened a transaction of its own
\* committed it if it returns OK and aborted it if it returns an error: none
\* returns OK after an abort and none commits after a failure.
C11_LocalTxnOutcome ==
    last.log # <<>>
    => /\ last.log[1] = "begin"
       /\ last.st = HAM_SUCCESS => last.log = <<"begin", "commit">>
       /\ last.st # HAM_SUCCESS => last.log = <<"begin", "abort">>

\* C12: every transaction a cursor operation began is committed or aborted
\* before the operation returns: between two calls no transaction of an
\* operation is open.
C12_LocalTxnEnded ==
    /\ db_txn # TXN_LOCAL
    /\ last.log # <<>>
       => last.log[Len(last.log)] \in {"commit", "abort"}

\* C13: while a transaction of the caller is active, no cursor operation
\* begins, commits or aborts a transaction, and the caller's transaction is
\* still the active one when the operation returns.
C13_OuterTxnUntouched ==
    [][(db_txn = TXN_OUTER /\ last'.op # "txn_end")
          => /\ last'.txn = TXN_OUTER
             /\ last'.log = <<>>
             /\ db_txn' = TXN_OUTER
      ]_vars

C13_Witness ==
    /\ last.op = "erase"
    /\ last.txn = TXN_OUTER
    /\ last.st = HAM_SUCCESS
    /\ BT_CURSOR_FLAG_COUPLED \in last.from
    /\ db_txn = TXN_OUTER

\* C14: an insert that returns an error (a failed comparison, a failed blob,
\* sibling or root allocation, a failed pivot key copy) leaves a valid
\* tree: a walk reads the keys from before the insert, with or without the
\* new key, each once and in order, and every key from before is found
\* with its record.
C14_FailedInsertKeepsTree ==
    (last.op = "insert"
        /\ last.st \notin {HAM_SUCCESS, HAM_DUPLICATE_KEY})
    => /\ Walk.keys \in {Sorted(DOMAIN inserted),
                         Sorted(DOMAIN inserted \cup {last.key})}
       /\ \A k \in DOMAIN inserted : Lookup(k) = inserted[k]

\* C15: after a cursor insert that returns OK the cursor is COUPLED (and
\* nothing else) to the leaf slot that holds the new key and is listed once
\* on that page and on no other; after one that fails (a duplicate key)
\* the cursor is NIL and listed on no page, wherever it was before.
C15_CursorInsert ==
    [][\A c \in DOMAIN cursors :
          (last'.op = "cursor_insert" /\ last'.c = c)
          => LET cur == cursors'[c]
                 page == pages'[cur.coupled_page]
             IN  /\ cur.uncoupled_key = 0
                 /\ last'.st = IF last'.key \in DOMAIN inserted
                               THEN HAM_DUPLICATE_KEY ELSE HAM_SUCCESS
                 /\ IF last'.st = HAM_SUCCESS
                    THEN /\ cur.flags = {BT_CURSOR_FLAG_COUPLED}
                         /\ btree_node_is_leaf(page)
                         /\ cur.coupled_index < page.count
                         /\ page.slots[cur.coupled_index].key = last'.key
                         /\ \A p \in 1..Len(pages') :
                               CursorCount(pages'[p], c)
                                 = IF p = cur.coupled_page THEN 1 ELSE 0
                    ELSE /\ cur.flags = {}
                         /\ \A p \in 1..Len(pages') :
                               CursorCount(pages'[p], c) = 0
      ]_vars

C15_Witness ==
    /\ last.op = "cursor_insert"
    /\ last.st = HAM_DUPLICATE_KEY
    /\ BT_CURSOR_FLAG_COUPLED \in last.from
    /\ Depth(rootpage) >= 2
    /\ bt_cursor_is_nil(cursors[last.c])

\* C16: after a cursor overwrite that returns OK the cursor is COUPLED and
\* its slot keeps its key and carries the size flag and the slot word of the
\* new record's length; a read through the cursor returns the new record;
\* an old blob is freed exactly once when the new record is inlined and is
\* overwritten (in place or moved) when the new record needs a blob; a
\* blob is allocated only for an inlined old record and a new one that
\* needs a blob; no blob is leaked or freed twice.
C16_CursorOverwrite ==
    [][\A c \in DOMAIN cursors :
          (/\ last'.op = "overwrite" /\ last'.c = c
           /\ last'.st = HAM_SUCCESS
           /\ cursors'[c].coupled_index
                 < pages'[cursors'[c].coupled_page].count)
          => LET cur == cursors'[c]
                 old == pages[cur.coupled_page].slots[cur.coupled_index]
                 new == pages'[cur.coupled_page].slots[cur.coupled_index]
                 rec == last'.record
                 n == Len(rec)
                 wasblob == old.flags \cap SizeFlags = {}
                 b == WordVal(old.ptr)
                 fresh == [data |-> rec, live |-> TRUE, frees |-> 0]
                 freed == [blobs EXCEPT ![b].live = FALSE,
                                        ![b].frees = @ + 1]
                 read == bt_cursor_move(DBafter, c, FALSE, TRUE, {})
             IN  /\ cur.flags = {BT_CURSOR_FLAG_COUPLED}
                 /\ new.key = old.key
                 /\ new.flags \ SizeFlags = old.flags \ SizeFlags
                 /\ new.flags \cap SizeFlags =
                       IF n = 0 THEN {KEY_BLOB_SIZE_EMPTY}
                       ELSE IF n < PtrWidth THEN {KEY_BLOB_SIZE_TINY}
                       ELSE IF n = PtrWidth THEN {KEY_BLOB_SIZE_SMALL}
                       ELSE {}
                 /\ n = 0 => new.ptr = Word(0)
                 /\ (0 < n /\ n <= PtrWidth)
                       => \A j \in 1..n : new.ptr[j - 1] = rec[j]
                 /\ (0 < n /\ n < PtrWidth) => new.ptr[PtrWidth - 1] = n
                 /\ n > PtrWidth
                       => /\ WordVal(new.ptr) \in DOMAIN blobs'
                          /\ blobs'[WordVal(new.ptr)] = fresh
                 /\ read.st = HAM_SUCCESS
                 /\ read.rec = rec
                 /\ IF wasblob
                    THEN IF n <= PtrWidth
                         THEN /\ blobs' = freed
                              /\ blobs'[b].frees = 1
                         ELSE \/ /\ WordVal(new.ptr) = b
                                 /\ blobs' = [blobs EXCEPT ![b].data = rec]
                              \/ /\ WordVal(new.ptr) = Len(blobs) + 1
                                 /\ blobs' = Append(freed, fresh)
                                 /\ blobs'[b].frees = 1
                    ELSE IF n <= PtrWidth
                         THEN blobs' = blobs
                         ELSE /\ WordVal(new.ptr) = Len(blobs) + 1
                              /\ blobs' = Append(blobs, fresh)
                 /\ BlobsAccounted(pages, blobs)
                       => BlobsAccounted(pages', blobs')
      ]_vars

C16_Witness ==
    /\ last.op = "overwrite"
    /\ last.st = HAM_SUCCESS
    /\ BT_CURSOR_FLAG_UNCOUPLED \in last.from
    /\ Len(last.record) > PtrWidth
    /\ Len(blobs) = OvwMaxBlobs
    /\ ~blobs[1].live
    /\ blobs[Len(blobs)].live
    /\ Lookup(1) = last.record

\* C17: a cursor erase through a NIL cursor returns CURSOR_IS_NIL and
\* changes neither the cursor nor the tree; through a COUPLED or UNCOUPLED
\* cursor on a key of the tree it returns OK, the key is gone from the
\* tree and every other key is still there; after every erase that returns
\* OK the cursor is NIL, owns no key copy and is listed on no page.
C17_CursorErase ==
    [][\A c \in DOMAIN cursors :
          (last'.op = "erase" /\ last'.c = c)
          => LET cur == cursors'[c]
                 root == pages'[rootpage']
             IN  /\ last'.from = {}
                      => /\ last'.st = HAM_CURSOR_IS_NIL
                         /\ cur = cursors[c]
                         /\ UNCHANGED <<pages, rootpage, blobs>>
                 /\ (last'.from # {} /\ last'.key \in DOMAIN inserted)
                      => /\ last'.st = HAM_SUCCESS
                         /\ rootpage' = rootpage
                         /\ { root.slots[i].key : i \in 0..(root.count - 1) }
                               = DOMAIN inserted \ {last'.key}
                         /\ root.count = pages[rootpage].count - 1
                 /\ last'.st = HAM_SUCCESS
                      => /\ cur.flags = {}
                         /\ cur.uncoupled_key = 0
                         /\ \A p \in 1..Len(pages') :
                               CursorCount(pages'[p], c) = 0
      ]_vars

C17_Witness ==
    /\ last.op = "erase"
    /\ last.st = HAM_SUCCESS
    /\ BT_CURSOR_FLAG_COUPLED \in last.from
    /\ last.key \notin DOMAIN inserted
    /\ DOMAIN inserted # {}
    /\ bt_cursor_is_nil(cursors[last.c])

\* C18: every open cursor is in exactly one of the modes NIL, COUPLED and
\* UNCOUPLED: the COUPLED and the UNCOUPLED flag are never both set, and
\* the cursor owns a copy of its key if and only if it is UNCOUPLED.
C18_OneMode ==
    \A c \in DOMAIN cursors :
        cursors[c].open
        => /\ ~(BT_CURSOR_FLAG_COUPLED \in cursors[c].flags
                /\ BT_CURSOR_FLAG_UNCOUPLED \in cursors[c].flags)
           /\ cursors[c].uncoupled_key # 0
                <=> BT_CURSOR_FLAG_UNCOUPLED \in cursors[c].flags

C18_Witness ==
    /\ last.op = "move"
    /\ last.st = HAM_SUCCESS
    /\ last.flags = {HAM_CURSOR_NEXT}
    /\ BT_CURSOR_FLAG_UNCOUPLED \in last.from
    /\ cursors[last.c].flags = {BT_CURSOR_FLAG_COUPLED}
    /\ cursors[last.c].uncoupled_key = 0
    /\ cursors[last.c].coupled_index = 0
    /\ pages[cursors[last.c].coupled_page].left # 0

\* C19: every COUPLED cursor is listed exactly once in the cursor list of
\* the page it is coupled to, and no cursor is listed on any other page:
\* NIL, UNCOUPLED and closed cursors are listed on no page.
C19_PageListsHoldCoupled ==
    \A c \in DOMAIN cursors : \A p \in 1..Len(pages) :
        CursorCount(pages[p], c)
          = IF /\ cursors[c].open
               /\ BT_CURSOR_FLAG_COUPLED \in cursors[c].flags
               /\ cursors[c].coupled_page = p
            THEN 1 ELSE 0

C19_Witness ==
    /\ last.op = "clone"
    /\ last.st = HAM_SUCCESS
    /\ Len(cursors) = 2
    /\ \A c \in DOMAIN cursors :
          /\ cursors[c].open
          /\ cursors[c].flags = {BT_CURSOR_FLAG_COUPLED}
          /\ cursors[c].coupled_page = rootpage
    /\ Len(pages[rootpage].cursors) = 2

\* C20: the page a COUPLED cursor is coupled to is a leaf, and the cursor's
\* slot index is at least 0 and below that page's count, also after inserts
\* that split the cursor's page.
C20_CoupledSlotInRange ==
    \A c \in DOMAIN cursors :
        (cursors[c].open /\ BT_CURSOR_FLAG_COUPLED \in cursors[c].flags)
        => /\ btree_node_is_leaf(pages[cursors[c].coupled_page])
           /\ 0 <= cursors[c].coupled_index
           /\ cursors[c].coupled_index
                 < pages[cursors[c].coupled_page].count

\* C21: after any sequence of inserts every internal node routes
\* correctly: its keys increase strictly, every key below its left pointer
\* is less than its first key, every key below slot i is at least slot i's
\* key and less than the next slot's key; and the descent for every
\* inserted key ends in the leaf that holds it.
C21_Routing ==
    /\ \A p \in InternalPages :
          LET node == pages[p]
          IN  /\ node.count > 0
                   => \A k \in SubtreeKeys(node.ptr_left) :
                         k < node.slots[0].key
              /\ \A i \in 0..(node.count - 1) :
                    /\ i + 1 < node.count
                         => node.slots[i].key < node.slots[i + 1].key
                    /\ \A k \in SubtreeKeys(WordVal(node.slots[i].ptr)) :
                          /\ k >= node.slots[i].key
                          /\ i + 1 < node.count
                               => k < node.slots[i + 1].key
    /\ SubtreeKeys(rootpage) = DOMAIN inserted
    /\ \A k \in DOMAIN inserted :
          btree_node_search_by_key(LeafOf(k), k) >= 0

C21_Witness ==
    /\ Depth(rootpage) >= 3
    /\ \E p \in InternalPages : pages[p].count >= 2
    /\ DOMAIN inserted = Keys


\* the cursor's key as another operation would find it: what it holds and
\* whether its blocks are allocated
KeyIntact(m, c) ==
    [key |-> m.cursors[c].uncoupled_key,
     mine |-> m.cursors[c].keyptr = c,
     live |-> {<<MEM_KEY, c>>, <<MEM_KEYDATA, c>>} \subseteq m.mem.live,
     sound |-> ~m.mem.bad /\ ~m.mem.lost]

\* C22: a successful clone yields a cursor in the source's mode and at its
\* position: a COUPLED clone is coupled to the same page and slot and is
\* on that page's cursor list; an UNCOUPLED clone has a key of its own
\* with the source's value, which setting to NIL or closing the source
\* leaves as it is, and the other way round; a NIL clone is NIL; the clone
\* is the head of the database's cursor list, in front of the former
\* head; the source's mode, position and key are unchanged.
C22_Clone ==
    [][(last'.op = "clone" /\ last'.st = HAM_SUCCESS)
       => \E oldcu \in DOMAIN cursors \ {last'.c} :
            LET c == last'.c
                old == cursors[oldcu]
                new == cursors'[c]
            IN  /\ old.open /\ ~cursors[c].open /\ new.open
                /\ new.flags = old.flags
                /\ new.dupe_id = old.dupe_id
                /\ BT_CURSOR_FLAG_COUPLED \in old.flags
                     => /\ new.coupled_page = old.coupled_page
                        /\ new.coupled_index = old.coupled_index
                        /\ \E i \in DOMAIN pages'[old.coupled_page].cursors :
                              pages'[old.coupled_page].cursors[i] = c
                /\ BT_CURSOR_FLAG_UNCOUPLED \in old.flags
                     => /\ new.uncoupled_key = old.uncoupled_key
                        /\ KeyIntact(DBafter, c).mine
                        /\ KeyIntact(DBafter, c).live
                        /\ KeyIntact(DBafter, oldcu).mine
                        /\ KeyIntact(bt_cursor_set_to_nil(DBafter, oldcu), c)
                              = KeyIntact(DBafter, c)
                        /\ KeyIntact(bt_cursor_close(DBafter, oldcu).m, c)
                              = KeyIntact(DBafter, c)
                        /\ KeyIntact(bt_cursor_set_to_nil(DBafter, c), oldcu)
                              = KeyIntact(DB, oldcu)
                        /\ KeyIntact(bt_cursor_close(DBafter, c).m, oldcu)
                              = KeyIntact(DB, oldcu)
                /\ bt_cursor_is_nil(old) => bt_cursor_is_nil(new)
                /\ db_cursors' = c
                /\ new.previous = 0
                /\ new.next = db_cursors
                /\ cursors'[oldcu] =
                      [old EXCEPT !.previous =
                                     IF db_cursors = oldcu THEN c ELSE @]
      ]_vars

C22_Witness ==
    /\ last.op = "clone"
    /\ last.st = HAM_SUCCESS
    /\ cursors[last.c].flags = {BT_CURSOR_FLAG_UNCOUPLED}
    /\ \E oldcu \in DOMAIN cursors \ {last.c} :
          /\ cursors[oldcu].flags = {BT_CURSOR_FLAG_UNCOUPLED}
          /\ cursors[oldcu].uncoupled_key = cursors[last.c].uncoupled_key
          /\ cursors[oldcu].keyptr # cursors[last.c].keyptr

\* the blocks the open cursors hold: each its cursor object, and an
\* UNCOUPLED one the structure and the data of its key
HeldBlocks ==
    {<<MEM_CURSOR, c>> : c \in {x \in DOMAIN cursors : cursors[x].open}}
    \cup ({MEM_KEY, MEM_KEYDATA} \X
          {x \in DOMAIN cursors :
              BT_CURSOR_FLAG_UNCOUPLED \in cursors[x].flags})

\* C23: after any sequence of create, clone, move, find, couple, uncouple,
\* erase, set-to-nil, close and inserts with and without splits, no block
\* was freed that was not allocated, none was left without its pointer,
\* and the live blocks are exactly those the open cursors hold; so with
\* every cursor closed no block is live, as at the start.
C23_NoLeak ==
    /\ ~mem.bad
    /\ ~mem.lost
    /\ mem.live = HeldBlocks
    /\ (\A c \in DOMAIN cursors : ~cursors[c].open) => mem = NoMem

C23_Witness ==
    /\ last.op = "close"
    /\ BT_CURSOR_FLAG_UNCOUPLED \in last.from
    /\ \A c \in DOMAIN cursors : ~cursors[c].open
    /\ Depth(rootpage) >= 2
    /\ mem = NoMem


\* the entries a page holds: its slots below count
LiveSlots(page) == {page.slots[i] : i \in 0..(page.count - 1)}

\* C24: in every insert, a page that is split (it gets a new page as its
\* right sibling) had N keys and is split at pivot = N/2: the old page
\* keeps its slots [0, pivot); a leaf's new sibling gets [pivot, N), its
\* first key is the pivot key; an internal page's new sibling gets
\* [pivot+1, N), slot pivot stays in neither and its pointer is the
\* sibling's ptr_left; exactly one entry, the inserted one, joins one of
\* the halves; and the pivot key is in an internal page with the
\* sibling's page ID as its pointer.
C24_SplitHalves ==
    [][\A p \in DOMAIN pages :
          pages'[p].right > Len(pages)
          => LET old == pages[p]
                 pivot == old.count \div 2
                 newid == pages'[p].right
                 leaf == btree_node_is_leaf(old)
                 lower == {old.slots[i] : i \in 0..(pivot - 1)}
                 upper == {old.slots[i] :
                              i \in (IF leaf THEN pivot ELSE pivot + 1)
                                        ..(old.count - 1)}
                 kept == LiveSlots(pages'[p])
                 moved == LiveSlots(pages'[newid])
             IN  /\ lower \subseteq kept
                 /\ upper \subseteq moved
                 /\ kept \cap moved = {}
                 /\ Cardinality((kept \ lower) \cup (moved \ upper)) = 1
                 /\ pages'[p].count + pages'[newid].count
                       = Cardinality(lower) + Cardinality(upper) + 1
                 /\ leaf => /\ btree_node_is_leaf(pages'[newid])
                            /\ pages'[newid].slots[0] = old.slots[pivot]
                 /\ ~leaf => /\ old.slots[pivot] \notin kept \cup moved
                             /\ pages'[newid].ptr_left
                                   = WordVal(old.slots[pivot].ptr)
                 /\ \E q \in DOMAIN pages' :
                       /\ ~btree_node_is_leaf(pages'[q])
                       /\ [key |-> old.slots[pivot].key,
                           ptr |-> Word(newid), flags |-> {}]
                             \in LiveSlots(pages'[q])
      ]_vars

C24_Witness ==
    /\ last.op = "insert"
    /\ last.st = HAM_SUCCESS
    /\ \E p \in InternalPages : pages[p].right # 0
    /\ \E p \in DOMAIN pages :
          btree_node_is_leaf(pages[p]) /\ pages[p].right # 0


\* a page split in this step, as C24 finds it: the pivot key, the entries
\* that joined the old page and those that joined its new sibling
SplitJoined(p) ==
    LET old == pages[p]
        pivot == old.count \div 2
        leaf == btree_node_is_leaf(old)
    IN  [pivotkey |-> old.slots[pivot].key,
         left |-> LiveSlots(pages'[p])
                     \ {old.slots[i] : i \in 0..(pivot - 1)},
         right |-> LiveSlots(pages'[pages'[p].right])
                     \ {old.slots[i] :
                            i \in (IF leaf THEN pivot ELSE pivot + 1)
                                      ..(old.count - 1)}]

\* C25 as the code has it: in a split the pivot slot is compared against
\* the inserted key; a key at or above the pivot key goes into the new
\* right sibling, a key below it into the old page.
C25_AtOrAbovePivotGoesRight ==
    [][\A p \in DOMAIN pages :
          pages'[p].right > Len(pages)
          => /\ \A e \in SplitJoined(p).right :
                   e.key >= SplitJoined(p).pivotkey
             /\ \A e \in SplitJoined(p).left :
                   e.key < SplitJoined(p).pivotkey
      ]_vars

C25_Witness ==
    /\ last.op = "insert"
    /\ last.st = HAM_SUCCESS
    /\ \E p \in DOMAIN pages :
          /\ btree_node_is_leaf(pages[p])
          /\ pages[p].right # 0
          /\ pages[p].count + pages[pages[p].right].count = maxkeys + 1
          /\ btree_node_search_by_key(pages[p], last.key) >= 0
          /\ last.key < pages[pages[p].right].slots[0].key

\* C25 as stated: a key at or below the pivot key goes into the new right
\* sibling, a key above it into the old page.
C25_AtOrBelowPivotGoesRight ==
    [][\A p \in DOMAIN pages :
          pages'[p].right > Len(pages)
          => /\ \A e \in SplitJoined(p).right :
                   e.key <= SplitJoined(p).pivotkey
             /\ \A e \in SplitJoined(p).left :
                   e.key > SplitJoined(p).pivotkey
      ]_vars


\* LAST, then PREVIOUS until it fails: the keys read and the status that
\* ended the walk, by a cursor of its own
RECURSIVE WalkPrevious(_, _)
WalkPrevious(m, fuel) ==
    LET r == bt_cursor_move(m, 1, TRUE, FALSE, {HAM_CURSOR_PREVIOUS})
    IN  IF r.st # HAM_SUCCESS THEN [keys |-> <<>>, st |-> r.st]
        ELSE IF fuel = 0 THEN [keys |-> <<r.key>>, st |-> "MORE"]
        ELSE LET w == WalkPrevious(r.m, fuel - 1)
             IN  [keys |-> <<r.key>> \o w.keys, st |-> w.st]

WalkBack ==
    LET m0 == [DB EXCEPT !.cursors = <<[ZeroCursor EXCEPT !.open = TRUE]>>]
        r == bt_cursor_move(m0, 1, TRUE, FALSE, {HAM_CURSOR_LAST})
    IN  IF r.st # HAM_SUCCESS THEN [keys |-> <<>>, st |-> r.st]
        ELSE LET w == WalkPrevious(r.m, Cardinality(DOMAIN inserted) + 1)
             IN  [keys |-> <<r.key>> \o w.keys, st |-> w.st]

\* a sequence back to front
Reverse(sq) == [i \in 1..Len(sq) |-> sq[Len(sq) + 1 - i]]

\* the leaves of the tree, and the leaf its left pointers lead to
LeafPages == {p \in DOMAIN pages : btree_node_is_leaf(pages[p])}

RECURSIVE FirstLeaf(_)
FirstLeaf(pid) ==
    IF btree_node_is_leaf(pages[pid]) THEN pid
    ELSE FirstLeaf(pages[pid].ptr_left)

\* the pages the right links lead through, starting at pid
RECURSIVE ChainFrom(_, _)
ChainFrom(pid, fuel) ==
    IF pid = 0 \/ fuel = 0 THEN <<>>
    ELSE <<pid>> \o ChainFrom(pages[pid].right, fuel - 1)

\* the keys of the pages of a chain, in the chain's order
RECURSIVE ChainKeys(_)
ChainKeys(chain) ==
    IF chain = <<>> THEN <<>>
    ELSE [i \in 1..pages[Head(chain)].count |->
              pages[Head(chain)].slots[i - 1].key]
         \o ChainKeys(Tail(chain))

\* the sibling links of the leaves agree in both directions, and the
\* right links from the leftmost leaf lead through every leaf once, the
\* keys increasing strictly along the way
LeafChainSound ==
    /\ \A p \in LeafPages :
          /\ pages[p].right # 0 => pages[pages[p].right].left = p
          /\ pages[p].left # 0 => pages[pages[p].left].right = p
    /\ LET chain == ChainFrom(FirstLeaf(rootpage), Len(pages) + 1)
       IN  /\ Len(chain) = Cardinality(LeafPages)
           /\ {chain[i] : i \in DOMAIN chain} = LeafPages
           /\ ChainKeys(chain) = Sorted(DOMAIN inserted)

\* C26: after any sequence of inserts and splits the leaf chain is sound
\* in both directions, and LAST followed by PREVIOUS until it fails reads
\* the keys of the FIRST/NEXT walk in exactly the reverse order.
C26_LeafChain ==
    /\ LeafChainSound
    /\ WalkBack = [keys |-> Reverse(Walk.keys), st |-> Walk.st]


\* the link writes of the last call that belong to the split that made
\* page n, each as the node and the link it wrote
WritesOfSplit(n) ==
    LET ws == SelectSeq(last.links, LAMBDA w : w.split = n)
    IN  [i \in DOMAIN ws |-> <<ws[i].node, ws[i].link>>]

\* C27: the sibling links of one split are written in the order new.left,
\* new.right, the left link of the old right sibling (if there is one),
\* and the old page's right link last.
C27_LinkOrder ==
    \A n \in DOMAIN pages :
        WritesOfSplit(n) \in
            {<<>>,
             <<<<"new", "left">>, <<"new", "right">>, <<"old", "right">>>>,
             <<<<"new", "left">>, <<"new", "right">>, <<"oldsib", "left">>,
               <<"old", "right">>>>}


\* the tree as an insert finds it when no page can be allocated
NoSibling == [DB EXCEPT !.faults = {"sibling"}]

\* C28: when the allocation of the sibling page fails, my_insert_split
\* returns the error with nothing changed, whatever page it is to split
\* and whether or not the scratchpad holds a pivot from a split below;
\* and an insert that fails so leaves pages, root pointer, blobs and
\* memory as they were, the scratchpad without pivot.
C28_FailedSiblingChangesNothing ==
    /\ \A pid \in DOMAIN pages : \A key \in SiblingKeys :
          \A sp \in {[key |-> k, rid |-> Word(pid), record |-> <<>>,
                       flags |-> {}] : k \in {0, key}} :
             my_insert_split(NoSibling, pid, key, Word(0), {}, sp)
               = [st |-> HAM_OUT_OF_MEMORY, m |-> NoSibling, sp |-> sp]
    /\ \A key \in SiblingKeys : \A record \in FaultRecords :
          LET r == btree_insert(NoSibling, key, record, {})
          IN  /\ r.st \in {HAM_SUCCESS, HAM_DUPLICATE_KEY,
                            HAM_OUT_OF_MEMORY}
              /\ r.st = HAM_OUT_OF_MEMORY
                   => /\ r.m = NoSibling
                      /\ r.sp.key = 0
                      /\ pages[FindLeaf(DB, rootpage, key)].count = maxkeys

C28_Witness ==
    /\ last.op = "insert"
    /\ last.st = HAM_OUT_OF_MEMORY
    /\ Depth(rootpage) >= 2
    /\ pages[FindLeaf(DB, rootpage, last.key)].count = maxkeys
    /\ btree_insert(NoSibling, last.key, <<>>, {}).st = HAM_OUT_OF_MEMORY


\* C29: before and after every insert every page holds at most maxkeys
\* entries, for maxkeys 2 and above; a page that the insert splits held
\* exactly maxkeys entries, so a page with fewer is never split; and no
\* page is allocated unless some page was full.
C29_SplitOnlyWhenFull ==
    [][/\ maxkeys > 1
       /\ \A p \in DOMAIN pages : pages[p].count <= maxkeys
       /\ \A p \in DOMAIN pages' : pages'[p].count <= maxkeys
       /\ \A p \in DOMAIN pages :
             pages'[p].right > Len(pages) => pages[p].count = maxkeys
       /\ \A p \in DOMAIN pages :
             pages[p].count < maxkeys
             => /\ pages'[p].right = pages[p].right
                /\ pages'[p].count >= pages[p].count
       /\ Len(pages') > Len(pages)
             => \E p \in DOMAIN pages : pages[p].count = maxkeys
      ]_vars

C29_Witness ==
    /\ last.op = "insert"
    /\ last.st = HAM_SUCCESS
    /\ maxkeys = MaxMaxKeys
    /\ Len(pages) >= 3
    /\ \E p \in DOMAIN pages : pages[p].count = maxkeys
    /\ \E p \in DOMAIN pages : pages[p].count < maxkeys - 1


\* the cursor is on key k: coupled to a live slot that holds it, or
\* uncoupled with a copy of it
PositionedOn(cur, k) ==
    \/ /\ BT_CURSOR_FLAG_COUPLED \in cur.flags
       /\ cur.coupled_index < pages[cur.coupled_page].count
       /\ pages[cur.coupled_page].slots[cur.coupled_index].key = k
    \/ /\ BT_CURSOR_FLAG_UNCOUPLED \in cur.flags
       /\ cur.uncoupled_key = k

\* the end of the tree a direction leads to
EndKey(flags) ==
    IF flags = {HAM_CURSOR_NEXT} THEN Max(DOMAIN inserted)
    ELSE Min(DOMAIN inserted)

\* C30: NEXT on a cursor on the greatest key, and PREVIOUS on a cursor on
\* the smallest key, returns KEY_NOT_FOUND; a COUPLED cursor stays as it
\* was, on the same page and slot and on that page's list, and no page
\* changes; an UNCOUPLED cursor ends COUPLED to the slot of that key.
C30_MoveAtEnd ==
    [][\A c \in DOMAIN cursors :
          (/\ last'.op = "move"
           /\ last'.c = c
           /\ last'.flags \in {{HAM_CURSOR_NEXT}, {HAM_CURSOR_PREVIOUS}}
           /\ DOMAIN inserted # {}
           /\ PositionedOn(cursors[c], EndKey(last'.flags)))
          => /\ last'.st = HAM_KEY_NOT_FOUND
             /\ cursors'[c].flags = {BT_CURSOR_FLAG_COUPLED}
             /\ pages'[cursors'[c].coupled_page]
                    .slots[cursors'[c].coupled_index].key
                   = EndKey(last'.flags)
             /\ \A p \in DOMAIN pages' :
                   CursorCount(pages'[p], c)
                     = IF p = cursors'[c].coupled_page THEN 1 ELSE 0
             /\ BT_CURSOR_FLAG_COUPLED \in cursors[c].flags
                  => cursors'[c] = cursors[c] /\ pages' = pages
      ]_vars

C30_Witness ==
    /\ last.op = "move"
    /\ last.flags = {HAM_CURSOR_NEXT}
    /\ last.st = HAM_KEY_NOT_FOUND
    /\ last.from = {BT_CURSOR_FLAG_COUPLED}
    /\ Depth(rootpage) >= 2
    /\ PositionedOn(cursors[last.c], Max(DOMAIN inserted))


\* a move of a cursor of its own in the given direction, on the tree as
\* it is
FreshMove(d) ==
    bt_cursor_move([DB EXCEPT !.cursors =
                                 <<[ZeroCursor EXCEPT !.open = TRUE]>>],
                   1, TRUE, FALSE, {d})

\* the move returned OK with key k and left the cursor COUPLED to a live
\* leaf slot that holds k
CoupledAt(r, k) ==
    /\ r.st = HAM_SUCCESS
    /\ r.key = k
    /\ r.m.cursors[1].flags = {BT_CURSOR_FLAG_COUPLED}
    /\ LET page == r.m.pages[r.m.cursors[1].coupled_page]
       IN  /\ btree_node_is_leaf(page)
           /\ r.m.cursors[1].coupled_index < page.count
           /\ page.slots[r.m.cursors[1].coupled_index].key = k

\* C31: on every tree that holds a key, for maxkeys 2 and above, a move
\* FIRST returns OK and couples the cursor to the smallest key, and a move
\* LAST returns OK and couples the cursor to the greatest key.
C31_FirstAndLast ==
    DOMAIN inserted # {}
    => /\ CoupledAt(FreshMove(HAM_CURSOR_FIRST), Min(DOMAIN inserted))
       /\ CoupledAt(FreshMove(HAM_CURSOR_LAST), Max(DOMAIN inserted))


\* C32: a couple of an UNCOUPLED cursor finds the key the cursor owns. If
\* the key is in the tree the call returns OK and the cursor is COUPLED
\* (and nothing else) to the live leaf slot that holds that key, listed
\* once on that page; if it is not, the call returns KEY_NOT_FOUND and the
\* cursor is NIL and listed nowhere. Either way the owned key is released:
\* the cursor points to no key and its key blocks and the temporary copy
\* are freed, each once.
C32_Couple ==
    [][\A c \in DOMAIN cursors :
          (last'.op = "couple" /\ last'.c = c)
          => LET k == cursors[c].uncoupled_key
                 cur == cursors'[c]
             IN  /\ cursors[c].flags = {BT_CURSOR_FLAG_UNCOUPLED}
                 /\ cur.uncoupled_key = 0
                 /\ cur.keyptr = 0
                 /\ mem'.live \cap {<<MEM_KEY, c>>, <<MEM_KEYDATA, c>>,
                                    <<MEM_TMPKEY, c>>} = {}
                 /\ ~mem'.bad /\ ~mem'.lost
                 /\ IF k \in DOMAIN inserted
                    THEN /\ last'.st = HAM_SUCCESS
                         /\ cur.flags = {BT_CURSOR_FLAG_COUPLED}
                         /\ btree_node_is_leaf(pages'[cur.coupled_page])
                         /\ cur.coupled_index
                               < pages'[cur.coupled_page].count
                         /\ pages'[cur.coupled_page]
                                .slots[cur.coupled_index].key = k
                         /\ \A p \in DOMAIN pages' :
                               CursorCount(pages'[p], c)
                                 = IF p = cur.coupled_page THEN 1 ELSE 0
                    ELSE /\ last'.st = HAM_KEY_NOT_FOUND
                         /\ bt_cursor_is_nil(cur)
                         /\ \A p \in DOMAIN pages' :
                               CursorCount(pages'[p], c) = 0
      ]_vars

C32_Witness ==
    /\ last.op = "couple"
    /\ last.st = HAM_SUCCESS
    /\ cursors[last.c].flags = {BT_CURSOR_FLAG_COUPLED}
    /\ cursors[last.c].keyptr = 0
    /\ Depth(rootpage) >= 2


\* C33: an uncouple of a COUPLED cursor that returns OK leaves the cursor
\* UNCOUPLED (and nothing else) with a copy of its slot's key in blocks of
\* its own, newly allocated; the cursor is off its page's list, or with
\* NO_REMOVE every page is exactly as it was. On a NIL or UNCOUPLED cursor
\* the call returns OK and changes nothing. When the key copy cannot be
\* allocated the call returns the error and cursor and pages are as
\* before.
C33_Uncouple ==
    [][\A c \in DOMAIN cursors :
          (last'.op = "uncouple" /\ last'.c = c)
          => LET old == cursors[c]
                 new == cursors'[c]
             IN  IF BT_CURSOR_FLAG_UNCOUPLED \in old.flags
                    \/ BT_CURSOR_FLAG_COUPLED \notin old.flags
                 THEN /\ last'.st = HAM_SUCCESS
                      /\ UNCHANGED <<cursors, pages, mem, db_txn>>
                 ELSE IF last'.st = HAM_SUCCESS
                 THEN /\ new.flags = {BT_CURSOR_FLAG_UNCOUPLED}
                      /\ new.uncoupled_key
                            = pages[old.coupled_page]
                                 .slots[old.coupled_index].key
                      /\ new.keyptr = c
                      /\ mem'.live = mem.live \cup {<<MEM_KEY, c>>,
                                                    <<MEM_KEYDATA, c>>}
                      /\ mem.live \cap {<<MEM_KEY, c>>,
                                        <<MEM_KEYDATA, c>>} = {}
                      /\ IF BT_CURSOR_UNCOUPLE_NO_REMOVE \in last'.flags
                         THEN pages' = pages
                         ELSE pages' =
                                [pages EXCEPT ![old.coupled_page].cursors =
                                    SelectSeq(@, LAMBDA x : x # c)]
                              /\ CursorCount(pages[old.coupled_page], c) > 0
                 ELSE /\ last'.st = HAM_OUT_OF_MEMORY
                      /\ UNCHANGED <<cursors, pages, db_txn>>
                      /\ CursorCount(pages'[old.coupled_page], c) > 0
      ]_vars

C33_Witness ==
    /\ last.op = "uncouple"
    /\ last.st = HAM_SUCCESS
    /\ last.flags = {BT_CURSOR_UNCOUPLE_NO_REMOVE}
    /\ last.from = {BT_CURSOR_FLAG_COUPLED}
    /\ cursors[last.c].flags = {BT_CURSOR_FLAG_UNCOUPLED}
    /\ CursorCount(pages[cursors[last.c].coupled_page], last.c) = 1


\* the pins of the last call: each page's count as the call found it, and
\* the counts the call left on it, in order
PinnedBelow ==
    {i \in DOMAIN last'.pins :
        last'.pins[i][2] < pages[last'.pins[i][1]].refcount}

\* C34: a cursor move and a cursor overwrite leave every page's reference
\* count as they found it, whether they succeed or fail, and while they
\* run the count of no page is below the value it had before the call
C34_PinsReleased ==
    [][last'.op \in {"move", "overwrite"} =>
          /\ \A p \in DOMAIN pages :
                pages'[p].refcount = pages[p].refcount
          /\ PinnedBelow = {}]_vars

\* a move has read the key and failed to read the record of a pinned page
C34_Witness ==
    /\ last.op = "move"
    /\ last.st = HAM_OUT_OF_MEMORY
    /\ last.outkey # NoKey
    /\ Len(last.pins) = 2
    /\ \E p \in DOMAIN pages : last.pins = <<<<p, 1>>, <<p, 0>>>>

\* C35: my_insert_nosplit with the OVERWRITE flag on a page that holds the
\* key returns OK and modifies nothing: no slot is shifted, the slot's key,
\* flags and pointer word, the count of every page and the blobs are as
\* before, and no page is marked dirty
C35_OverwriteNoChange ==
    [][(last'.op = "nosplit" /\ OVERWRITE \in last'.flags)
          => /\ last'.st = HAM_SUCCESS
             /\ UNCHANGED <<pages, rootpage, blobs, db_dirty, mem>>
      ]_vars

\* my_insert_nosplit with OVERWRITE has found its key before the last slot
\* of a full leaf, the record it brought differing from the stored one
C35_Witness ==
    /\ last.op = "nosplit"
    /\ OVERWRITE \in last.flags
    /\ last.st = HAM_SUCCESS
    /\ last.record # inserted[last.key]
    /\ LeafOf(last.key).count = maxkeys
    /\ LeafOf(last.key).slots[0].key = last.key
    /\ Lookup(last.key) = inserted[last.key]

\* the pages an internal page points at: its left pointer and its slots
Children(page) ==
    {page.ptr_left}
        \cup {WordVal(page.slots[i].ptr) : i \in 0..(page.count - 1)}

\* the depths at which the leaves below a page lie, the page at depth 1
RECURSIVE LeafDepths(_, _)
LeafDepths(m, pid) ==
    IF btree_node_is_leaf(m.pages[pid]) THEN {1}
    ELSE {d + 1 : d \in UNION {LeafDepths(m, ch) :
                                  ch \in Children(m.pages[pid])}}

\* C36: after every insert all leaves are at one depth from the root; the
\* depth grows by exactly one when the insert splits the root page, and is
\* unchanged by every other insert
C36_UniformHeight ==
    [][\A k \in Keys :
          (last'.op = "insert" /\ last'.key = k)
          => LET before == LeafDepths(DB, rootpage)
                 after == LeafDepths(DBafter, rootpage')
             IN  /\ Cardinality(after) = 1
                 /\ after = IF RootSplits(k, <<>>, {})
                            THEN {d + 1 : d \in before}
                            ELSE before
      ]_vars

\* an insert has split a root that was an internal page: the leaves, more
\* than four of them, are at depth three
C36_Witness ==
    /\ last.op = "insert"
    /\ last.st = HAM_SUCCESS
    /\ rootpage = Len(pages)
    /\ LeafDepths(DB, rootpage) = {3}
    /\ Cardinality(LeafPages) >= 4

\* the pages of the tree below and including a page
RECURSIVE Reachable(_, _)
Reachable(m, pid) ==
    IF btree_node_is_leaf(m.pages[pid]) THEN {pid}
    ELSE {pid} \cup UNION {Reachable(m, ch) :
                              ch \in Children(m.pages[pid])}

\* C37: after any sequence of inserts every page of the tree other than the
\* root holds at least one entry, the root as well once a key is in the
\* tree: no split leaves the old page or the new sibling, leaf or internal,
\* without entries
C37_NoEmptyNode ==
    \A p \in Reachable(DB, rootpage) :
       (p # rootpage \/ DOMAIN inserted # {}) => pages[p].count >= 1

\* C38: a clone that fails changes nothing: the database's cursor list
\* holds the cursors it held before, no partially built cursor is linked
\* into it or refers to the source's key, and the source cursor and the
\* allocations are as they were
C38_FailedCloneChangesNothing ==
    [][(last'.op = "clone" /\ last'.st # HAM_SUCCESS)
          => /\ UNCHANGED <<db_cursors, cursors, pages, mem>>
             /\ ~cursors'[last'.c].open
             /\ cursors'[last'.c].keyptr = 0
      ]_vars

\* C39: a cursor overwrite with a record longer than the pointer width that
\* fails in the blob store leaves the slot as it was: its size flags and
\* its pointer word are unchanged and a read through the cursor returns the
\* old record
C39_FailedOverwriteKeepsSlot ==
    [][\A c \in DOMAIN cursors :
          (/\ last'.op = "overwrite" /\ last'.c = c
           /\ last'.st = HAM_OUT_OF_MEMORY
           /\ Len(last'.record) > PtrWidth
           /\ BT_CURSOR_FLAG_COUPLED \in cursors'[c].flags)
          => LET cur == cursors'[c]
                 old == pages[cur.coupled_page].slots[cur.coupled_index]
                 new == pages'[cur.coupled_page].slots[cur.coupled_index]
             IN  /\ new.flags = old.flags
                 /\ new.ptr = old.ptr
                 /\ Readable(DBafter, new)
                 /\ util_read_record(DBafter, new)
                       = util_read_record(DB, old)
      ]_vars

============================================================================
